---- MODULE Spec2Model ----
(***************************************************************************)
(* GRAIL SCANNER: the authentication orchestrator (services/gemini.ts),    *)
(* its response parser and the tool router (tools), as a state machine.    *)
(*                                                                         *)
(* One run of authenticateItem is modelled at the granularity of the       *)
(* JavaScript event loop: an action is everything the function does        *)
(* between two awaits.  The hosted model is the environment: each          *)
(* chat.sendMessage either resolves with a reply the environment chooses   *)
(* or rejects.                                                             *)
(***************************************************************************)
EXTENDS Integers, Sequences, FiniteSets, TLC

\* ------------------------------------------------------------------------
\* Bounds of the model
\* ------------------------------------------------------------------------

\* Largest number of function calls the hosted model puts in one reply.
MaxCallsPerRound == 2

NONE == [none |-> TRUE]

\* ------------------------------------------------------------------------
\* Model texts.  A text is a sequence of tokens; a token is a word, a
\* punctuation or white-space character, or a maximal run of digits.
\* ------------------------------------------------------------------------

W(s) == [k |-> "w", s |-> s, d |-> <<>>]
N(d) == [k |-> "n", s |-> "", d |-> d]

SP == W(" ")
COLON == W(":")
PCT == W("%")

\* /i : the case folding of the words the patterns name.
LowerCase(s) ==
    CASE s = "Confidence" -> "confidence"
      [] s = "CONFIDENCE" -> "confidence"
      [] s = "Confident"  -> "confident"
      [] s = "Score"      -> "score"
      [] s = "Authentic"  -> "authentic"
      [] s = "Verified"   -> "verified"
      [] s = "REAL"       -> "real"
      [] s = "Not"        -> "not"
      [] s = "FAKE"       -> "fake"
      [] s = "Replica"    -> "replica"
      [] OTHER            -> s

\* [:\s]
IsColonOrSpace(t) == t.k = "w" /\ t.s \in {":", " ", "\n", "\t"}
\* \s
IsSpace(t) == t.k = "w" /\ t.s \in {" ", "\n", "\t"}

\* The words that end in the literal "confidence" / "score" and the words
\* that begin with the literal "confident" (the patterns are unanchored).
EndsWithConfidence(t) == t.k = "w" /\ LowerCase(t.s) \in {"confidence", "overconfidence"}
EndsWithScore(t) == t.k = "w" /\ LowerCase(t.s) \in {"score"}
StartsWithConfident(t) == t.k = "w" /\ LowerCase(t.s) \in {"confident", "confidently"}

\* The first index >= i of text whose token is not matched by the class.
RECURSIVE SkipColonOrSpace(_, _)
SkipColonOrSpace(text, i) ==
    IF i <= Len(text) /\ IsColonOrSpace(text[i]) THEN SkipColonOrSpace(text, i + 1) ELSE i

RECURSIVE SkipSpace(_, _)
SkipSpace(text, i) ==
    IF i <= Len(text) /\ IsSpace(text[i]) THEN SkipSpace(text, i + 1) ELSE i

\* parseInt of a digit string.
RECURSIVE parseInt(_)
parseInt(d) ==
    IF Len(d) = 0 THEN 0 ELSE 10 * parseInt(SubSeq(d, 1, Len(d) - 1)) + d[Len(d)]

Min(a, b) == IF a <= b THEN a ELSE b
Max(a, b) == IF a >= b THEN a ELSE b

\* Math.round(p / q) for q > 0: halves go up.
MathRound(p, q) == (2 * p + q) \div (2 * q)

\* /confidence[:\s]*(\d{1,3})%/i at token i: the digits captured, or <<>>.
\* A run of more than three digits cannot be followed by "%" after three.
MatchConfidencePct(text, i) ==
    IF ~EndsWithConfidence(text[i]) THEN <<>>
    ELSE LET j == SkipColonOrSpace(text, i + 1) IN
         IF /\ j + 1 <= Len(text)
            /\ text[j].k = "n"
            /\ Len(text[j].d) <= 3
            /\ text[j + 1] = PCT
         THEN text[j].d
         ELSE <<>>

\* /(\d{1,3})%\s*confident/i at token i: the leftmost start inside a digit
\* run leaves at most three digits before the "%".
MatchPctConfident(text, i) ==
    IF /\ text[i].k = "n"
       /\ i + 1 <= Len(text)
       /\ text[i + 1] = PCT
    THEN LET j == SkipSpace(text, i + 2) IN
         IF j <= Len(text) /\ StartsWithConfident(text[j])
         THEN LET d == text[i].d IN SubSeq(d, Max(1, Len(d) - 2), Len(d))
         ELSE <<>>
    ELSE <<>>

\* /score[:\s]*(\d{1,3})/i at token i: the first three digits at most.
MatchScore(text, i) ==
    IF ~EndsWithScore(text[i]) THEN <<>>
    ELSE LET j == SkipColonOrSpace(text, i + 1) IN
         IF j <= Len(text) /\ text[j].k = "n"
         THEN SubSeq(text[j].d, 1, Min(3, Len(text[j].d)))
         ELSE <<>>

\* ------------------------------------------------------------------------
\* The other fields the parser extracts.  A punctuation character is a
\* token of its own; the en dash and the bullet are written u2013, u2022.
\* A value extracted from the text is a sequence of tokens.
\* ------------------------------------------------------------------------

NL == W("\n")
COMMA == W(",")
DOT == W(".")
DASH == W("-")
ENDASH == W("u2013")
BULLET == W("u2022")
STAR == W("*")
DOLLAR == W("$")
AMP == W("&")

Symbols == {" ", "\n", "\t", ":", "%", ",", ".", ";", "-", "u2013", "u2022", "*", "$", "&"}

\* [A-Za-z]+ : a word
IsLetters(t) == t.k = "w" /\ t.s \notin Symbols
\* [-u2013]
IsDash(t) == t \in {DASH, ENDASH}
\* [-u2022*]
IsBullet(t) == t \in {DASH, BULLET, STAR}
\* a character "." matches
IsNotNewline(t) == t # NL

\* String.prototype.trim on tokens, and replace(/^[:\s]+/, '').
RECURSIVE TrimTokens(_)
TrimTokens(s) ==
    IF Len(s) > 0 /\ IsSpace(s[1]) THEN TrimTokens(Tail(s))
    ELSE IF Len(s) > 0 /\ IsSpace(s[Len(s)]) THEN TrimTokens(SubSeq(s, 1, Len(s) - 1))
    ELSE s

StripLeadingColonOrSpace(s) == SubSeq(s, SkipColonOrSpace(s, 1), Len(s))

\* The words of the model's texts in which a pattern's literal occurs, and
\* what is left of the word after the literal.
ContainsBrand(t) ==
    t.k = "w" /\ t.s \in {"brand", "Brand", "BRAND", "brands", "Brands", "Branding", "rebrand"}
RestAfterBrand(s) ==
    CASE s \in {"brands", "Brands"} -> "s"
      [] s = "Branding"             -> "ing"
      [] OTHER                      -> ""

EndsWithEraKeyword(t) ==
    t.k = "w" /\ t.s \in {"era", "Era", "ERA", "period", "Period", "decade", "Decade",
                          "year", "Year", "camera"}
EraKeywordOf(s) == IF s = "camera" THEN "era" ELSE s

EndsWithEarlyMidLate(t) ==
    t.k = "w" /\ t.s \in {"early", "Early", "mid", "Mid", "late", "Late", "plate"}
EarlyMidLateOf(s) == IF s = "plate" THEN "late" ELSE s

\* s (under /i) directly after a run of digits: the words that begin with
\* it, and the letter matched.
StartsWithS(t) == t.k = "w" /\ t.s \in {"s", "S", "score", "Score", "style"}
SOf(s) == IF s \in {"S", "Score"} THEN "S" ELSE "s"

EndsWithRed(t) == t.k = "w" /\ t.s \in {"red", "Red", "RED", "colored"}
StartsWithFlag(t) == t.k = "w" /\ t.s \in {"flag", "Flag", "FLAG", "flags", "Flags", "FLAGS", "flagged"}
RestAfterFlags(s) == IF s = "flagged" THEN "ged" ELSE ""

EndsWithVerifiedOrAuthentication(t) ==
    t.k = "w" /\ t.s \in {"verified", "Verified", "VERIFIED", "unverified",
                          "authentication", "Authentication"}
StartsWithMarker(t) ==
    t.k = "w" /\ t.s \in {"marker", "Marker", "markers", "Markers", "MARKERS", "markerless"}
RestAfterMarkers(s) == IF s = "markerless" THEN "less" ELSE ""

\* [A-Za-z\s&] and (?:\n|,|\.|;)
InBrandClass(t) == IsLetters(t) \/ IsSpace(t) \/ t = AMP
IsBrandTerminator(t) == t.k = "w" /\ t.s \in {"\n", ",", ".", ";"}

\* The least and the greatest member of a set of positive indices, 0 for
\* the empty set.
LeastOrZero(S) == IF S = {} THEN 0 ELSE CHOOSE e \in S : \A f \in S : e <= f
GreatestOrZero(S) == IF S = {} THEN 0 ELSE CHOOSE e \in S : \A f \in S : e >= f

\* ([A-Za-z\s&]+?)(?:\n|,|\.|;) from token k: the index of the terminator
\* that ends the shortest capture of at least min tokens, or 0.
BrandCaptureEnd(text, k, min) ==
    LeastOrZero({e \in (k + min)..Len(text) :
                    /\ IsBrandTerminator(text[e])
                    /\ \A m \in k..(e - 1) : InBrandClass(text[m])})

\* /brand[:\s]*([A-Za-z\s&]+?)(?:\n|,|\.|;)/i at token i: the capture, or
\* <<>>.  The greedy [:\s]* gives characters back to the capture until the
\* rest of the pattern matches: the capture starts at the last token k
\* that lets it (none when k = 0), or inside the word of token i and ends
\* before token e.
MatchBrand(text, i) ==
    LET From(k) == IF k = 0 THEN <<>>
                   ELSE SubSeq(text, k, BrandCaptureEnd(text, k, 1) - 1)
        AfterWord(e) == IF e = 0 THEN <<>>
                        ELSE <<W(RestAfterBrand(text[i].s))>> \o SubSeq(text, i + 1, e - 1)
    IN IF ~ContainsBrand(text[i]) THEN <<>>
       ELSE IF RestAfterBrand(text[i].s) # ""
       THEN AfterWord(BrandCaptureEnd(text, i + 1, 0))
       ELSE From(GreatestOrZero({k \in (i + 1)..SkipColonOrSpace(text, i + 1) :
                                    BrandCaptureEnd(text, k, 1) # 0}))

\* [0-9]{4} at the start of a run of digits, and at its end.
FirstFour(t) == N(SubSeq(t.d, 1, 4))
LastFour(t) == N(SubSeq(t.d, Len(t.d) - 3, Len(t.d)))
HasFourDigits(text, j) == j <= Len(text) /\ text[j].k = "n" /\ Len(text[j].d) >= 4
YearAt(text, r) == IF HasFourDigits(text, r) THEN r ELSE 0

\* [0-9]{4}s? at the start of the run at token j: the tokens matched.
YearAndS(text, j) ==
    IF Len(text[j].d) = 4 /\ j + 1 <= Len(text) /\ StartsWithS(text[j + 1])
    THEN <<text[j], W(SOf(text[j + 1].s))>>
    ELSE <<FirstFour(text[j])>>

\* The index after [0-9]{4}s? when it has consumed whole tokens, else 0.
AfterYearAndS(text, j) ==
    IF Len(text[j].d) # 4 THEN 0
    ELSE IF j + 1 <= Len(text) /\ StartsWithS(text[j + 1])
    THEN IF text[j + 1].s \in {"s", "S"} THEN j + 2 ELSE 0
    ELSE j + 1

\* [-u2013]\s*[0-9]{4} from token q: the index of the run of digits, or 0.
DashThenYear(text, q) ==
    IF q > Len(text) \/ ~IsDash(text[q]) THEN 0
    ELSE YearAt(text, SkipSpace(text, q + 1))

\* /(?:era|period|decade|year)[:\s]*([0-9]{4}s?(?:\s*[-u2013]\s*[0-9]{4}s?)?)/i
\* at token i: the whole match, or <<>>.  [:\s]* ends before token j; the
\* optional group starts at token p (0 when [0-9]{4}s? ended inside a
\* token) and has its run of digits at token r (0 when it does not match).
MatchEraKeyword(text, i) ==
    LET SecondYearAt(p, r) == IF r = 0 THEN <<>>
                              ELSE SubSeq(text, p, r - 1) \o YearAndS(text, r)
        SecondYear(p) == IF p = 0 THEN <<>>
                         ELSE SecondYearAt(p, DashThenYear(text, SkipSpace(text, p)))
        From(j) == IF ~HasFourDigits(text, j) THEN <<>>
                   ELSE <<W(EraKeywordOf(text[i].s))>> \o SubSeq(text, i + 1, j - 1)
                        \o YearAndS(text, j) \o SecondYear(AfterYearAndS(text, j))
    IN IF ~EndsWithEraKeyword(text[i]) THEN <<>>
       ELSE From(SkipColonOrSpace(text, i + 1))

\* /((?:early|mid|late)\s+[0-9]{4}s)/i at token i.
MatchEarlyMidLate(text, i) ==
    IF ~EndsWithEarlyMidLate(text[i]) THEN <<>>
    ELSE LET j == SkipSpace(text, i + 1) IN
         IF /\ j > i + 1
            /\ j + 1 <= Len(text)
            /\ text[j].k = "n"
            /\ Len(text[j].d) = 4
            /\ StartsWithS(text[j + 1])
         THEN <<W(EarlyMidLateOf(text[i].s))>> \o SubSeq(text, i + 1, j)
              \o <<W(SOf(text[j + 1].s))>>
         ELSE <<>>

\* /(\d{4})\s*[-u2013]\s*(\d{4})/ at token i: the index of the second run of
\* digits, or 0.
YearRangeEnd(text, i) ==
    IF ~HasFourDigits(text, i) THEN 0 ELSE DashThenYear(text, SkipSpace(text, i + 1))

\* The whole match of the pattern at token i, or <<>>.
MatchYearRange(text, i) ==
    LET To(r) == IF r = 0 THEN <<>>
                 ELSE <<LastFour(text[i])>> \o SubSeq(text, i + 1, r - 1)
                      \o <<FirstFour(text[r])>>
    IN To(YearRangeEnd(text, i))

\* Its two groups as numbers, or <<>>.
MatchYearRangeGroups(text, i) ==
    LET To(r) == IF r = 0 THEN <<>>
                 ELSE <<parseInt(LastFour(text[i]).d), parseInt(FirstFour(text[r]).d)>>
    IN To(YearRangeEnd(text, i))

\* ([^]*?)(?:\n\n|$) from token a: the tokens up to the first empty line
\* or the end of the text.
SectionFrom(text, a) ==
    LET To(e) == IF e = 0 THEN SubSeq(text, a, Len(text)) ELSE SubSeq(text, a, e - 1)
    IN To(LeastOrZero({e \in a..(Len(text) - 1) : text[e] = NL /\ text[e + 1] = NL}))

\* /red flag[s]?[:\s]*([^]*?)(?:\n\n|$)/i at token i: <<the section>>, or
\* <<>>.
MatchRedFlagSection(text, i) ==
    IF /\ EndsWithRed(text[i])
       /\ i + 2 <= Len(text)
       /\ text[i + 1] = SP
       /\ StartsWithFlag(text[i + 2])
    THEN IF RestAfterFlags(text[i + 2].s) # ""
         THEN << <<W(RestAfterFlags(text[i + 2].s))>> \o SectionFrom(text, i + 3) >>
         ELSE << SectionFrom(text, SkipColonOrSpace(text, i + 3)) >>
    ELSE <<>>

\* /(?:verified|authentication)\s*markers?[:\s]*([^]*?)(?:\n\n|$)/i at
\* token i: <<the section>>, or <<>>.
MatchMarkerSection(text, i) ==
    IF ~EndsWithVerifiedOrAuthentication(text[i]) THEN <<>>
    ELSE LET j == SkipSpace(text, i + 1) IN
         IF j <= Len(text) /\ StartsWithMarker(text[j])
         THEN IF RestAfterMarkers(text[j].s) # ""
              THEN << <<W(RestAfterMarkers(text[j].s))>> \o SectionFrom(text, j + 1) >>
              ELSE << SectionFrom(text, SkipColonOrSpace(text, j + 1)) >>
         ELSE <<>>

\* The index of the last token of the line that token j is on.
RECURSIVE LineEnd(_, _)
LineEnd(s, j) ==
    IF j + 1 <= Len(s) /\ IsNotNewline(s[j + 1]) THEN LineEnd(s, j + 1) ELSE j

\* section.match(/[-u2022*]\s*(.+)/g) with each match stripped of its bullet
\* by replace(/^[-u2022*]\s*/, ''), scanning from token p.  When only white
\* space follows a bullet, \s* gives back its last character that is not a
\* newline to (.+), and the stripped match is the empty string.
RECURSIVE Bullets(_, _)
Bullets(s, p) ==
    IF p > Len(s) THEN <<>>
    ELSE IF ~IsBullet(s[p]) THEN Bullets(s, p + 1)
    ELSE LET j == SkipSpace(s, p + 1)
             given == {k \in (p + 1)..Len(s) : IsNotNewline(s[k])}
         IN IF j <= Len(s)
            THEN <<SubSeq(s, j, LineEnd(s, j))>> \o Bullets(s, LineEnd(s, j) + 1)
            ELSE IF given # {}
            THEN << <<>> >> \o Bullets(s, (CHOOSE k \in given : \A m \in given : k >= m) + 1)
            ELSE Bullets(s, p + 1)

\* (\d+(?:,\d{3})*) at token a: [digits, next], the digits matched and the
\* index after them, or next = 0.  With strict, what follows must not be a
\* digit or a comma (the pattern goes on with \s*[-u2013]).
RECURSIVE MoneyGroups(_, _, _, _)
MoneyGroups(text, p, digits, strict) ==
    IF p + 1 <= Len(text) /\ text[p] = COMMA /\ text[p + 1].k = "n"
    THEN IF Len(text[p + 1].d) = 3
         THEN MoneyGroups(text, p + 2, digits \o text[p + 1].d, strict)
         ELSE IF strict THEN [digits |-> digits, next |-> 0]
         ELSE IF Len(text[p + 1].d) > 3
         THEN [digits |-> digits \o SubSeq(text[p + 1].d, 1, 3), next |-> p + 2]
         ELSE [digits |-> digits, next |-> p]
    ELSE IF strict /\ p <= Len(text) /\ text[p] = COMMA
    THEN [digits |-> digits, next |-> 0]
    ELSE [digits |-> digits, next |-> p]

Money(text, a, strict) ==
    IF a <= Len(text) /\ text[a].k = "n"
    THEN MoneyGroups(text, a + 1, text[a].d, strict)
    ELSE [digits |-> <<>>, next |-> 0]

\* [-u2013]\s* from token q: the index after it, or 0.
DashThenSpace(text, q) ==
    IF q > Len(text) \/ ~IsDash(text[q]) THEN 0 ELSE SkipSpace(text, q + 1)

\* /\$(\d+(?:,\d{3})*)\s*[-u2013]\s*\$(\d+(?:,\d{3})*)/ at token i: the two
\* groups with their commas removed, as numbers, or <<>>.  The second "$"
\* is looked for at token r (none when r = 0).
MatchValue(text, i) ==
    LET Groups(first, second) ==
            IF second.next = 0 THEN <<>>
            ELSE <<parseInt(first.digits), parseInt(second.digits)>>
        Second(first, r) ==
            IF r = 0 \/ r > Len(text) THEN <<>>
            ELSE IF text[r] # DOLLAR THEN <<>>
            ELSE Groups(first, Money(text, r + 1, FALSE))
        After(first) ==
            IF first.next = 0 THEN <<>>
            ELSE Second(first, DashThenSpace(text, SkipSpace(text, first.next)))
    IN IF text[i] # DOLLAR THEN <<>> ELSE After(Money(text, i + 1, TRUE))

\* The patterns of parseAuthenticationResponse, by their order in the
\* source.
MatchAt(pattern, text, i) ==
    CASE pattern = 1  -> MatchConfidencePct(text, i)
      [] pattern = 2  -> MatchPctConfident(text, i)
      [] pattern = 3  -> MatchScore(text, i)
      [] pattern = 4  -> MatchBrand(text, i)
      [] pattern = 5  -> MatchEraKeyword(text, i)
      [] pattern = 6  -> MatchEarlyMidLate(text, i)
      [] pattern = 7  -> MatchYearRange(text, i)
      [] pattern = 8  -> MatchYearRangeGroups(text, i)
      [] pattern = 9  -> MatchRedFlagSection(text, i)
      [] pattern = 10 -> MatchMarkerSection(text, i)
      [] pattern = 11 -> MatchValue(text, i)

\* a || b for two matches or two strings: <<>> is null, or the empty string.
OrElse(a, b) == IF a # <<>> THEN a ELSE b

\* String.prototype.match: the leftmost match of a pattern in the text.
RECURSIVE FirstMatch(_, _, _)
FirstMatch(pattern, text, i) ==
    IF i > Len(text) THEN <<>>
    ELSE OrElse(MatchAt(pattern, text, i), FirstMatch(pattern, text, i + 1))

\* confidenceMatch: the three patterns in order, the first that matches.
confidenceMatch(text) ==
    OrElse(FirstMatch(1, text, 1), OrElse(FirstMatch(2, text, 1), FirstMatch(3, text, 1)))

\* parseConfidence without Math.min.
parseConfidenceUnclamped(text) ==
    LET m == confidenceMatch(text) IN
    IF m # <<>> THEN parseInt(m) ELSE 50

parseConfidence(text) ==
    LET m == confidenceMatch(text) IN
    IF m # <<>> THEN Min(100, parseInt(m)) ELSE 50

\* getConfidenceLevel with > in place of >=.
getConfidenceLevelExclusive(score) ==
    IF score > 90 THEN "very_high"
    ELSE IF score > 75 THEN "high"
    ELSE IF score > 55 THEN "moderate"
    ELSE IF score > 35 THEN "low"
    ELSE "uncertain"

getConfidenceLevel(score) ==
    IF score >= 90 THEN "very_high"
    ELSE IF score >= 75 THEN "high"
    ELSE IF score >= 55 THEN "moderate"
    ELSE IF score >= 35 THEN "low"
    ELSE "uncertain"

\* brandMatch?.[1]?.trim() || 'Unknown'
parseBrand(text) == OrElse(TrimTokens(FirstMatch(4, text, 1)), <<W("Unknown")>>)

\* The three era patterns in order, the first that matches.
eraMatch(text) ==
    OrElse(FirstMatch(5, text, 1), OrElse(FirstMatch(6, text, 1), FirstMatch(7, text, 1)))

\* eraMatch?.[0]?.replace(/^[:\s]+/, '') || 'Unknown era'
parseEra(text) ==
    OrElse(StripLeadingColonOrSpace(eraMatch(text)), <<W("Unknown"), SP, W("era")>>)

\* parseYearRange with the default range one year short.
parseYearRangeShortDefault(text) == OrElse(FirstMatch(8, text, 1), <<1970, 1999>>)

parseYearRange(text) == OrElse(FirstMatch(8, text, 1), <<1970, 2000>>)

\* The stripped bullet lines of a matched section, none without a match.
SectionBullets(section) == IF section # <<>> THEN Bullets(section[1], 1) ELSE <<>>

parseRedFlags(text) == SectionBullets(FirstMatch(9, text, 1))

parseVerifiedMarkers(text) == SectionBullets(FirstMatch(10, text, 1))

\* [lowValue, highValue]
parseValue(text) == OrElse(FirstMatch(11, text, 1), <<0, 0>>)

\* The AuthenticationResult built from a text.  The two confidence
\* fractions (confidence / 100) are held in hundredths, details
\* (text.slice(0, 500)) is the whole text, which is shorter in the model,
\* and the two clock readings are left out.
\* \w+ : a word or a run of digits; \b lies between it and anything else.
IsWordChars(t) == t.k = "n" \/ t.s \notin Symbols

\* \b(...)\b around the tokens i..j of text
WordBounded(text, i, j) ==
    /\ i = 1 \/ ~IsWordChars(text[i - 1])
    /\ j = Len(text) \/ ~IsWordChars(text[j + 1])

IsWord(t, words) == t.k = "w" /\ LowerCase(t.s) \in words

\* /\b(authentic|genuine|real|verified|legitimate)\b/i.test(text)
TestPositive(text) ==
    \E i \in 1..Len(text) :
        /\ IsWord(text[i], {"authentic", "genuine", "real", "verified", "legitimate"})
        /\ WordBounded(text, i, i)

\* /\b(not authentic|not genuine|fake|counterfeit|replica|reproduction)\b/i.test(text)
TestNegative(text) ==
    \E i \in 1..Len(text) :
        \/ /\ IsWord(text[i], {"fake", "counterfeit", "replica", "reproduction"})
           /\ WordBounded(text, i, i)
        \/ /\ IsWord(text[i], {"not"})
           /\ i + 2 <= Len(text)
           /\ text[i + 1] = W(" ")
           /\ IsWord(text[i + 2], {"authentic", "genuine"})
           /\ WordBounded(text, i, i + 2)

isAuthentic(text) == TestPositive(text) /\ ~TestNegative(text)

AuthenticationResult(text, authentic, confidence, brand, era, yearRange, redFlags, verifiedMarkers, lowValue, highValue) ==
    [ isAuthentic     |-> authentic,
      confidence      |-> confidence,
      confidenceLevel |-> getConfidenceLevel(confidence),
      category        |-> "unknown",
      brandEra        |-> [ brand      |-> brand,
                            era        |-> era,
                            yearRange  |-> yearRange,
                            confidence |-> confidence,
                            markers    |-> SubSeq(verifiedMarkers, 1,
                                                  Min(5, Len(verifiedMarkers))) ],
      rnLookup        |-> NONE,
      brandPattern    |-> [ brand             |-> brand,
                            era               |-> era,
                            authenticityScore |-> confidence,
                            matchedPatterns   |-> verifiedMarkers,
                            redFlags          |-> redFlags,
                            details           |-> text ],
      dateForensics   |-> [ estimatedEra        |-> era,
                            yearRange           |-> yearRange,
                            confidence          |-> confidence,
                            evidence            |-> verifiedMarkers,
                            constructionDetails |-> <<>>,
                            materialAnalysis    |-> "" ],
      marketData      |-> [ estimatedValue  |-> [ low      |-> lowValue,
                                                  mid      |-> MathRound(lowValue + highValue, 2),
                                                  high     |-> highValue,
                                                  currency |-> "USD" ],
                            comparableSales |-> <<>>,
                            marketTrend     |-> "stable",
                            demandLevel     |-> IF confidence > 75 THEN "high" ELSE "moderate" ],
      reasoning       |-> text,
      redFlags        |-> redFlags,
      verifiedMarkers |-> verifiedMarkers,
      thinkingOutput  |-> text ]

parseAuthenticationResponse(text) ==
    AuthenticationResult(text, isAuthentic(text), parseConfidence(text), parseBrand(text), parseEra(text),
                         parseYearRange(text), parseRedFlags(text),
                         parseVerifiedMarkers(text), parseValue(text)[1], parseValue(text)[2])

\* ------------------------------------------------------------------------
\* Configuration
\* ------------------------------------------------------------------------

\* selfCorrectionThreshold is held in hundredths (70 stands for 0.7).
DEFAULT_CONFIG(envApiKey) ==
    [ apiKey |-> envApiKey, maxRetries |-> 2, selfCorrectionThreshold |-> 70 ]

\* { ...DEFAULT_CONFIG, ...config }
MergeConfig(defaults, config) ==
    [f \in DOMAIN defaults |-> IF f \in DOMAIN config THEN config[f] ELSE defaults[f]]

\* The double selfCorrectionThreshold * 100 for the threshold h / 100, as
\* [floor, frac]: its integer part and whether a fractional part is left
\* by the rounding of the product (0.55 * 100 is 55.00000000000001 and
\* 0.57 * 100 is 56.99999999999999).
ThresholdTimes100(h) ==
    IF h \in {7, 14, 28, 55, 56} THEN [floor |-> h, frac |-> 1]
    ELSE IF h \in {29, 57, 58} THEN [floor |-> h - 1, frac |-> 1]
    ELSE [floor |-> h, frac |-> 0]

\* n < p for an integer n and a double p.
LessThanDouble(n, p) == IF p.frac = 1 THEN n <= p.floor ELSE n < p.floor

\* createClient without its check of the key.
createClientNeverThrows(config) == FALSE

\* createClient: does it throw?
createClientThrows(config) == config.apiKey = ""

\* ------------------------------------------------------------------------
\* JavaScript values the tools compute with.  A string a tool inspects is
\* a sequence of one-character strings; null and undefined are NONE and a
\* value that may be null is wrapped by Some.
\* ------------------------------------------------------------------------

Some(v) == [some |-> v]

\* args.name || fallback : a missing or empty argument is falsy.
Arg(args, name, fallback) ==
    IF name \in DOMAIN args /\ args[name] # <<>> THEN args[name] ELSE fallback

IsDigit(c) == c \in {"0", "1", "2", "3", "4", "5", "6", "7", "8", "9"}

DigitValue(c) ==
    CASE c = "0" -> 0 [] c = "1" -> 1 [] c = "2" -> 2 [] c = "3" -> 3
      [] c = "4" -> 4 [] c = "5" -> 5 [] c = "6" -> 6 [] c = "7" -> 7
      [] c = "8" -> 8 [] c = "9" -> 9

DigitChar(d) == <<"0", "1", "2", "3", "4", "5", "6", "7", "8", "9">>[d + 1]

\* String(n) of a non-negative integer.
RECURSIVE NumToStr(_)
NumToStr(n) ==
    IF n < 10 THEN <<DigitChar(n)>> ELSE NumToStr(n \div 10) \o <<DigitChar(n % 10)>>

\* String.prototype.toLowerCase, one character.
toLowerChar(c) ==
    CASE c = "A" -> "a" [] c = "B" -> "b" [] c = "C" -> "c" [] c = "D" -> "d"
      [] c = "E" -> "e" [] c = "F" -> "f" [] c = "G" -> "g" [] c = "H" -> "h"
      [] c = "I" -> "i" [] c = "J" -> "j" [] c = "K" -> "k" [] c = "L" -> "l"
      [] c = "M" -> "m" [] c = "N" -> "n" [] c = "O" -> "o" [] c = "P" -> "p"
      [] c = "Q" -> "q" [] c = "R" -> "r" [] c = "S" -> "s" [] c = "T" -> "t"
      [] c = "U" -> "u" [] c = "V" -> "v" [] c = "W" -> "w" [] c = "X" -> "x"
      [] c = "Y" -> "y" [] c = "Z" -> "z" [] OTHER -> c

toLowerCase(s) == [i \in 1..Len(s) |-> toLowerChar(s[i])]

IsWhiteSpace(c) == c \in {" ", "\n", "\t"}

\* String.prototype.trim
RECURSIVE trimStart(_)
trimStart(s) ==
    IF Len(s) > 0 /\ IsWhiteSpace(s[1]) THEN trimStart(Tail(s)) ELSE s

RECURSIVE trimEnd(_)
trimEnd(s) ==
    IF Len(s) > 0 /\ IsWhiteSpace(s[Len(s)]) THEN trimEnd(SubSeq(s, 1, Len(s) - 1)) ELSE s

trim(s) == trimEnd(trimStart(s))

\* String.prototype.includes
includes(s, sub) ==
    \E i \in 1..(Len(s) - Len(sub) + 1) : SubSeq(s, i, i + Len(sub) - 1) = sub

\* s.slice(0, n)
sliceTo(s, n) == SubSeq(s, 1, Min(n, Len(s)))

\* s.replace(c, '') : the first occurrence of the character c removed.
RECURSIVE replaceFirst(_, _)
replaceFirst(s, c) ==
    IF Len(s) = 0 THEN s
    ELSE IF s[1] = c THEN Tail(s)
    ELSE <<s[1]>> \o replaceFirst(Tail(s), c)

\* s.split(c) : the pieces of s between the occurrences of the character c.
RECURSIVE split(_, _)
split(s, c) ==
    IF \A i \in 1..Len(s) : s[i] # c THEN <<s>>
    ELSE LET i == CHOOSE k \in 1..Len(s) : s[k] = c /\ \A j \in 1..(k - 1) : s[j] # c
         IN <<SubSeq(s, 1, i - 1)>> \o split(SubSeq(s, i + 1, Len(s)), c)

\* ------------------------------------------------------------------------
\* Tool 1: RN lookup
\* ------------------------------------------------------------------------

\* calculateRNYear that rounds the quotient down.
calculateRNYearTruncates(rnNumber) ==
    IF rnNumber < 13670 THEN NONE
    ELSE Some((rnNumber - 13670 + 1959 * 2635) \div 2635)

\* (rnNumber - 13670) / 2635 + 1959, rounded; null below the formula series.
calculateRNYear(rnNumber) ==
    IF rnNumber < 13670 THEN NONE
    ELSE Some(MathRound(rnNumber - 13670 + 1959 * 2635, 2635))

RN_DATABASE ==
    { [rn |-> <<"4", "2", "8", "5", "0">>,  company |-> <<"N", "i", "k", "e", " ", "I", "n", "c", ".">>, year |-> 1970],
      [rn |-> <<"5", "5", "5", "3", "1">>,  company |-> <<"G", "a", "p", " ", "I", "n", "c", ".">>, year |-> 1975],
      [rn |-> <<"7", "3", "2", "7", "7">>,  company |-> <<"L", "e", "v", "i", " ", "S", "t", "r", "a", "u", "s", "s", " ", "&", " ", "C", "o", ".">>, year |-> 1982],
      [rn |-> <<"7", "3", "9", "0", "9">>,  company |-> <<"R", "a", "l", "p", "h", " ", "L", "a", "u", "r", "e", "n", " ", "C", "o", "r", "p", "o", "r", "a", "t", "i", "o", "n">>, year |-> 1982],
      [rn |-> <<"7", "7", "3", "8", "8">>,  company |-> <<"T", "o", "m", "m", "y", " ", "H", "i", "l", "f", "i", "g", "e", "r">>, year |-> 1984],
      [rn |-> <<"9", "1", "5", "1", "8">>,  company |-> <<"T", "h", "e", " ", "N", "o", "r", "t", "h", " ", "F", "a", "c", "e">>, year |-> 1989],
      [rn |-> <<"1", "0", "1", "2", "4", "3">>, company |-> <<"P", "a", "t", "a", "g", "o", "n", "i", "a", " ", "I", "n", "c", ".">>, year |-> 1992],
      [rn |-> <<"1", "1", "4", "7", "9", "8">>, company |-> <<"C", "a", "r", "h", "a", "r", "t", "t", " ", "I", "n", "c", ".">>, year |-> 1997],
      [rn |-> <<"5", "6", "0", "0", "2">>,  company |-> <<"L", "e", "v", "i", "'", "s", " ", "(", "a", "l", "t", "e", "r", "n", "a", "t", "e", ")">>, year |-> 1975],
      [rn |-> <<"4", "1", "3", "8", "1">>,  company |-> <<"P", "e", "n", "d", "l", "e", "t", "o", "n", " ", "W", "o", "o", "l", "e", "n", " ", "M", "i", "l", "l", "s">>, year |-> 1969],
      [rn |-> <<"1", "5", "7", "6", "3">>,  company |-> <<"L", ".", "L", ".", "B", "e", "a", "n", " ", "I", "n", "c", ".">>, year |-> 1960],
      [rn |-> <<"2", "6", "0", "9", "4">>,  company |-> <<"F", "r", "u", "i", "t", " ", "o", "f", " ", "t", "h", "e", " ", "L", "o", "o", "m">>, year |-> 1964] }

rnLookup(args) ==
    LET rawNumber == Arg(args, "rn_number", <<>>)
        cleaned   == SelectSeq(rawNumber, IsDigit)
    IN IF cleaned = <<>>
       THEN [ rnNumber         |-> rawNumber,
              companyName      |-> <<"I", "n", "v", "a", "l", "i", "d", " ", "R", "N", " ", "n", "u", "m", "b", "e", "r">>,
              registrationYear |-> NONE,
              calculatedYear   |-> NONE,
              status           |-> "not_found",
              formula          |-> <<"N", "/", "A">> ]
       ELSE LET rnNum          == parseInt([i \in 1..Len(cleaned) |-> DigitValue(cleaned[i])])
                known          == {e \in RN_DATABASE : e.rn = cleaned}
                calculatedYear == calculateRNYear(rnNum)
            IN [ rnNumber         |-> <<"R", "N", " ">> \o cleaned,
                 companyName      |-> IF known # {}
                                      THEN (CHOOSE e \in known : TRUE).company
                                      ELSE <<"U", "n", "k", "n", "o", "w", "n", " ", "(", "R", "N", " ">> \o cleaned \o <<")">>,
                 registrationYear |-> IF known # {}
                                      THEN Some((CHOOSE e \in known : TRUE).year)
                                      ELSE NONE,
                 calculatedYear   |-> calculatedYear,
                 status           |-> IF known # {} \/ calculatedYear # NONE
                                      THEN "active" ELSE "not_found",
                 formula          |-> <<"(">> \o NumToStr(rnNum) \o <<" ", "-", " ", "1", "3", "6", "7", "0", ")", " ", "/", " ", "2", "6", "3", "5", " ", "+", " ", "1", "9", "5", "9", " ", "=", " ">>
                                      \o (IF calculatedYear # NONE
                                          THEN NumToStr(calculatedYear.some) ELSE <<"N", "/", "A">>) ]
\* ------------------------------------------------------------------------
\* Object.prototype
\* ------------------------------------------------------------------------

\* The members every object literal inherits: a property read table[key]
\* finds them when the table has no own property of that name.
ObjectPrototype ==
    { "constructor", "__proto__", "hasOwnProperty", "isPrototypeOf",
      "propertyIsEnumerable", "toLocaleString", "toString", "valueOf" }

KeyChars(key) ==
    CASE key = "constructor"          -> <<"c", "o", "n", "s", "t", "r", "u", "c", "t", "o", "r">>
      [] key = "__proto__"            -> <<"_", "_", "p", "r", "o", "t", "o", "_", "_">>
      [] key = "hasOwnProperty"       -> <<"h", "a", "s", "O", "w", "n", "P", "r", "o", "p", "e", "r", "t", "y">>
      [] key = "isPrototypeOf"        -> <<"i", "s", "P", "r", "o", "t", "o", "t", "y", "p", "e", "O", "f">>
      [] key = "propertyIsEnumerable" -> <<"p", "r", "o", "p", "e", "r", "t", "y", "I", "s", "E", "n", "u", "m", "e", "r", "a", "b", "l", "e">>
      [] key = "toLocaleString"       -> <<"t", "o", "L", "o", "c", "a", "l", "e", "S", "t", "r", "i", "n", "g">>
      [] key = "toString"             -> <<"t", "o", "S", "t", "r", "i", "n", "g">>
      [] key = "valueOf"              -> <<"v", "a", "l", "u", "e", "O", "f">>

\* table[key] is an inherited member (a function or Object.prototype
\* itself, truthy either way) for a key given as a string of characters.
IsInherited(key) == \E k \in ObjectPrototype : KeyChars(k) = key

\* What a tool that throws leaves instead of a result.
Threw(name) == [threw |-> name]

NonEmpty(s) == s # <<>>

\* s.split(',').map(m => m.trim()).filter(Boolean)
splitTrimFilter(s) ==
    LET pieces == split(s, ",")
    IN SelectSeq([i \in 1..Len(pieces) |-> trim(pieces[i])], NonEmpty)

\* ------------------------------------------------------------------------
\* Tool 2: brand pattern verification
\* ------------------------------------------------------------------------

BRAND_PATTERNS ==
    { [ brand |-> <<"n", "i", "k", "e">>,
        eras  |-> <<
          [ key      |-> <<"1", "9", "7", "0", "s">>,
            patterns |-> << <<"B", "l", "o", "c", "k", " ", "l", "e", "t", "t", "e", "r", " ", "N", "I", "K", "E", " ", "l", "o", "g", "o">>,
                            <<"M", "a", "d", "e", " ", "i", "n", " ", "J", "a", "p", "a", "n", "/", "T", "a", "i", "w", "a", "n">>,
                            <<"W", "a", "f", "f", "l", "e", " ", "o", "u", "t", "s", "o", "l", "e">>,
                            <<"S", "i", "m", "p", "l", "e", " ", "s", "w", "o", "o", "s", "h">> >>,
            redFlags |-> << <<"M", "o", "d", "e", "r", "n", " ", "s", "w", "o", "o", "s", "h", " ", "d", "e", "s", "i", "g", "n">>,
                            <<"M", "a", "d", "e", " ", "i", "n", " ", "C", "h", "i", "n", "a", "/", "V", "i", "e", "t", "n", "a", "m">>,
                            <<"M", "o", "i", "s", "t", "u", "r", "e", "-", "w", "i", "c", "k", "i", "n", "g", " ", "m", "a", "t", "e", "r", "i", "a", "l", "s">> >>,
            details  |-> <<"E", "a", "r", "l", "y", " ", "N", "i", "k", "e", " ", "f", "e", "a", "t", "u", "r", "e", "d", " ", "b", "l", "o", "c", "k", " ", "l", "e", "t", "t", "e", "r", "s", " ", "a", "n", "d", " ", "J", "a", "p", "a", "n", "e", "s", "e", " ", "m", "a", "n", "u", "f", "a", "c", "t", "u", "r", "i", "n", "g", ".", " ", "T", "h", "e", " ", "s", "w", "o", "o", "s", "h", " ", "w", "a", "s", " ", "t", "h", "i", "n", "n", "e", "r", " ", "a", "n", "d", " ", "s", "i", "m", "p", "l", "e", "r", ".">> ],
          [ key      |-> <<"1", "9", "8", "0", "s">>,
            patterns |-> << <<"G", "r", "e", "y", " ", "t", "a", "g">>,
                            <<"S", "i", "l", "v", "e", "r", "/", "g", "r", "e", "y", " ", "l", "a", "b", "e", "l">>,
                            <<"M", "a", "d", "e", " ", "i", "n", " ", "T", "a", "i", "w", "a", "n", "/", "K", "o", "r", "e", "a">>,
                            <<"B", "l", "o", "c", "k", " ", "f", "o", "n", "t">>,
                            <<"P", "i", "n", " ", "t", "a", "g", " ", "o", "n", " ", "c", "o", "l", "l", "a", "r">> >>,
            redFlags |-> << <<"W", "h", "i", "t", "e", " ", "l", "a", "b", "e", "l">>,
                            <<"M", "o", "d", "e", "r", "n", " ", "b", "a", "r", "c", "o", "d", "e", " ", "f", "o", "r", "m", "a", "t">>,
                            <<"D", "r", "i", "-", "F", "I", "T", " ", "b", "r", "a", "n", "d", "i", "n", "g">> >>,
            details  |-> <<"T", "h", "e", " ", "G", "r", "e", "y", " ", "T", "a", "g", " ", "e", "r", "a", " ", "(", "1", "9", "8", "0", "-", "8", "7", ")", " ", "i", "s", " ", "h", "i", "g", "h", "l", "y", " ", "c", "o", "l", "l", "e", "c", "t", "i", "b", "l", "e", ".", " ", "L", "o", "o", "k", " ", "f", "o", "r", " ", "s", "i", "l", "v", "e", "r", "/", "g", "r", "e", "y", " ", "w", "o", "v", "e", "n", " ", "l", "a", "b", "e", "l", "s", ".">> ],
          [ key      |-> <<"1", "9", "9", "0", "s">>,
            patterns |-> << <<"W", "h", "i", "t", "e", " ", "t", "a", "g">>,
                            <<"W", "h", "i", "t", "e", " ", "l", "a", "b", "e", "l">>,
                            <<"M", "a", "d", "e", " ", "i", "n", " ", "U", "S", "A", " ", "p", "o", "s", "s", "i", "b", "l", "e">>,
                            <<"E", "m", "b", "r", "o", "i", "d", "e", "r", "e", "d", " ", "s", "w", "o", "o", "s", "h">>,
                            <<"M", "i", "n", "i", " ", "s", "w", "o", "o", "s", "h">> >>,
            redFlags |-> << <<"G", "r", "e", "y", " ", "t", "a", "g", " ", "(", "t", "o", "o", " ", "e", "a", "r", "l", "y", ")">>,
                            <<"M", "o", "d", "e", "r", "n", " ", "h", "a", "n", "g", " ", "t", "a", "g", " ", "d", "e", "s", "i", "g", "n">>,
                            <<"F", "l", "e", "x", "/", "R", "e", "a", "c", "t", " ", "b", "r", "a", "n", "d", "i", "n", "g">> >>,
            details  |-> <<"W", "h", "i", "t", "e", " ", "T", "a", "g", " ", "e", "r", "a", " ", "(", "1", "9", "8", "8", "-", "1", "9", "9", "8", ")", ".", " ", "H", "i", "g", "h", "l", "y", " ", "s", "o", "u", "g", "h", "t", " ", "a", "f", "t", "e", "r", ".", " ", "M", "i", "n", "i", " ", "s", "w", "o", "o", "s", "h", " ", "a", "n", "d", " ", "c", "e", "n", "t", "e", "r", " ", "s", "w", "o", "o", "s", "h", " ", "a", "r", "e", " ", "v", "a", "l", "u", "a", "b", "l", "e", ".">> ],
          [ key      |-> <<"2", "0", "0", "0", "s">>,
            patterns |-> << <<"S", "i", "z", "e", " ", "t", "a", "g", " ", "o", "n", " ", "i", "n", "s", "i", "d", "e">>,
                            <<"M", "o", "d", "e", "r", "n", " ", "h", "a", "n", "g", " ", "t", "a", "g">>,
                            <<"T", "e", "c", "h", " ", "f", "a", "b", "r", "i", "c", " ", "l", "a", "b", "e", "l", "s">>,
                            <<"B", "a", "r", "c", "o", "d", "e", " ", "t", "a", "g">> >>,
            redFlags |-> << <<"M", "i", "s", "s", "i", "n", "g", " ", "c", "a", "r", "e", " ", "l", "a", "b", "e", "l", "s">>,
                            <<"I", "n", "c", "o", "r", "r", "e", "c", "t", " ", "f", "o", "n", "t", " ", "s", "p", "a", "c", "i", "n", "g">>,
                            <<"P", "o", "o", "r", " ", "s", "w", "o", "o", "s", "h", " ", "p", "r", "o", "p", "o", "r", "t", "i", "o", "n", "s">> >>,
            details  |-> <<"M", "o", "d", "e", "r", "n", " ", "e", "r", "a", " ", "N", "i", "k", "e", ".", " ", "L", "o", "o", "k", " ", "f", "o", "r", " ", "c", "o", "n", "s", "i", "s", "t", "e", "n", "t", " ", "l", "a", "b", "e", "l", " ", "f", "o", "r", "m", "a", "t", "t", "i", "n", "g", " ", "a", "n", "d", " ", "p", "r", "o", "p", "e", "r", " ", "m", "a", "t", "e", "r", "i", "a", "l", " ", "c", "o", "m", "p", "o", "s", "i", "t", "i", "o", "n", " ", "t", "a", "g", "s", ".">> ] >> ],
      [ brand |-> <<"l", "e", "v", "i", "s">>,
        eras  |-> <<
          [ key      |-> <<"1", "9", "6", "0", "s">>,
            patterns |-> << <<"B", "i", "g", " ", "E", " ", "(", "L", "E", "V", "I", "'", "S", ")">>,
                            <<"S", "i", "n", "g", "l", "e", "-", "s", "t", "i", "t", "c", "h", " ", "h", "e", "m", "s">>,
                            <<"R", "e", "d", "l", "i", "n", "e", " ", "s", "e", "l", "v", "e", "d", "g", "e">>,
                            <<"P", "a", "p", "e", "r", " ", "p", "a", "t", "c", "h">> >>,
            redFlags |-> << <<"L", "o", "w", "e", "r", "c", "a", "s", "e", " ", "e">>,
                            <<"C", "h", "a", "i", "n", " ", "s", "t", "i", "t", "c", "h", " ", "h", "e", "m", "s">>,
                            <<"M", "o", "d", "e", "r", "n", " ", "r", "i", "v", "e", "t", "s">> >>,
            details  |-> <<"B", "i", "g", " ", "E", " ", "e", "r", "a", " ", "u", "s", "e", "s", " ", "c", "a", "p", "i", "t", "a", "l", " ", "E", " ", "i", "n", " ", "L", "E", "V", "I", "'", "S", ".", " ", "E", "x", "t", "r", "e", "m", "e", "l", "y", " ", "v", "a", "l", "u", "a", "b", "l", "e", ".", " ", "C", "h", "e", "c", "k", " ", "f", "o", "r", " ", "s", "e", "l", "v", "e", "d", "g", "e", " ", "d", "e", "n", "i", "m", ".">> ],
          [ key      |-> <<"1", "9", "7", "0", "s">>,
            patterns |-> << <<"S", "m", "a", "l", "l", " ", "e", " ", "(", "L", "e", "v", "i", "'", "s", ")">>,
                            <<"O", "r", "a", "n", "g", "e", " ", "t", "a", "b", " ", "p", "o", "s", "s", "i", "b", "l", "e">>,
                            <<"C", "a", "r", "e", " ", "t", "a", "g", " ", "w", "i", "t", "h", " ", "n", "u", "m", "b", "e", "r", "s">>,
                            <<"C", "h", "a", "i", "n", " ", "s", "t", "i", "t", "c", "h", " ", "h", "e", "m", "s">> >>,
            redFlags |-> << <<"B", "i", "g", " ", "E", " ", "(", "t", "o", "o", " ", "e", "a", "r", "l", "y", ")">>,
                            <<"M", "o", "d", "e", "r", "n", " ", "l", "e", "a", "t", "h", "e", "r", " ", "p", "a", "t", "c", "h">>,
                            <<"S", "t", "r", "e", "t", "c", "h", " ", "d", "e", "n", "i", "m">> >>,
            details  |-> <<"T", "r", "a", "n", "s", "i", "t", "i", "o", "n", " ", "f", "r", "o", "m", " ", "B", "i", "g", " ", "E", " ", "t", "o", " ", "s", "m", "a", "l", "l", " ", "e", " ", "h", "a", "p", "p", "e", "n", "e", "d", " ", "~", "1", "9", "7", "1", ".", " ", "O", "r", "a", "n", "g", "e", " ", "t", "a", "b", " ", "i", "n", "d", "i", "c", "a", "t", "e", "s", " ", "n", "o", "n", "-", "5", "0", "1", " ", "l", "i", "n", "e", ".">> ],
          [ key      |-> <<"1", "9", "8", "0", "s">>,
            patterns |-> << <<"R", "e", "d", " ", "t", "a", "b", " ", "s", "m", "a", "l", "l", " ", "e">>,
                            <<"L", "e", "a", "t", "h", "e", "r", " ", "p", "a", "t", "c", "h">>,
                            <<"M", "a", "d", "e", " ", "i", "n", " ", "U", "S", "A">>,
                            <<"C", "o", "n", "e", " ", "M", "i", "l", "l", "s", " ", "d", "e", "n", "i", "m", " ", "p", "o", "s", "s", "i", "b", "l", "e">> >>,
            redFlags |-> << <<"P", "a", "p", "e", "r", " ", "p", "a", "t", "c", "h">>,
                            <<"N", "o", "n", "-", "U", "S", " ", "m", "a", "n", "u", "f", "a", "c", "t", "u", "r", "e">>,
                            <<"M", "o", "d", "e", "r", "n", " ", "b", "u", "t", "t", "o", "n", " ", "s", "t", "y", "l", "e", "s">> >>,
            details  |-> <<"M", "a", "d", "e", " ", "i", "n", " ", "U", "S", "A", " ", "e", "r", "a", ".", " ", "L", "o", "o", "k", " ", "f", "o", "r", " ", "q", "u", "a", "l", "i", "t", "y", " ", "d", "e", "n", "i", "m", " ", "w", "e", "i", "g", "h", "t", " ", "a", "n", "d", " ", "C", "o", "n", "e", " ", "M", "i", "l", "l", "s", " ", "f", "a", "b", "r", "i", "c", ".">> ],
          [ key      |-> <<"1", "9", "9", "0", "s">>,
            patterns |-> << <<"R", "e", "d", " ", "t", "a", "b", " ", "s", "m", "a", "l", "l", " ", "e">>,
                            <<"V", "a", "r", "i", "o", "u", "s", " ", "g", "l", "o", "b", "a", "l", " ", "m", "a", "n", "u", "f", "a", "c", "t", "u", "r", "e">>,
                            <<"S", "i", "l", "v", "e", "r", " ", "t", "a", "b", " ", "l", "i", "n", "e">>,
                            <<"B", "a", "g", "g", "y", "/", "l", "o", "o", "s", "e", " ", "c", "u", "t", "s">> >>,
            redFlags |-> << <<"I", "n", "c", "o", "r", "r", "e", "c", "t", " ", "t", "a", "b", " ", "p", "l", "a", "c", "e", "m", "e", "n", "t">>,
                            <<"P", "o", "o", "r", " ", "r", "i", "v", "e", "t", " ", "q", "u", "a", "l", "i", "t", "y">>,
                            <<"W", "r", "o", "n", "g", " ", "p", "o", "c", "k", "e", "t", " ", "a", "r", "c", " ", "p", "a", "t", "t", "e", "r", "n">> >>,
            details  |-> <<"D", "i", "v", "e", "r", "s", "e", " ", "m", "a", "n", "u", "f", "a", "c", "t", "u", "r", "i", "n", "g", " ", "e", "r", "a", ".", " ", "S", "i", "l", "v", "e", "r", " ", "T", "a", "b", " ", "l", "i", "n", "e", " ", "i", "s", " ", "c", "o", "l", "l", "e", "c", "t", "i", "b", "l", "e", ".", " ", "C", "h", "e", "c", "k", " ", "p", "o", "c", "k", "e", "t", " ", "a", "r", "c", "s", " ", "c", "a", "r", "e", "f", "u", "l", "l", "y", ".">> ] >> ],
      [ brand |-> <<"r", "a", "l", "p", "h", " ", "l", "a", "u", "r", "e", "n">>,
        eras  |-> <<
          [ key      |-> <<"1", "9", "8", "0", "s">>,
            patterns |-> << <<"P", "o", "l", "o", " ", "p", "l", "a", "y", "e", "r", " ", "l", "o", "g", "o">>,
                            <<"M", "a", "d", "e", " ", "i", "n", " ", "U", "S", "A">>,
                            <<"S", "i", "n", "g", "l", "e", "-", "n", "e", "e", "d", "l", "e", " ", "c", "o", "n", "s", "t", "r", "u", "c", "t", "i", "o", "n">>,
                            <<"B", "u", "t", "t", "o", "n", "-", "d", "o", "w", "n", " ", "c", "o", "l", "l", "a", "r">> >>,
            redFlags |-> << <<"M", "o", "d", "e", "r", "n", " ", "t", "a", "g", " ", "d", "e", "s", "i", "g", "n">>,
                            <<"M", "a", "d", "e", " ", "i", "n", " ", "S", "r", "i", " ", "L", "a", "n", "k", "a", "/", "C", "h", "i", "n", "a">>,
                            <<"M", "i", "s", "s", "i", "n", "g", " ", "c", "o", "u", "n", "t", "r", "y", " ", "o", "f", " ", "o", "r", "i", "g", "i", "n">> >>,
            details  |-> <<"G", "o", "l", "d", "e", "n", " ", "e", "r", "a", " ", "R", "a", "l", "p", "h", " ", "L", "a", "u", "r", "e", "n", ".", " ", "M", "a", "d", "e", " ", "i", "n", " ", "U", "S", "A", " ", "w", "i", "t", "h", " ", "p", "r", "e", "m", "i", "u", "m", " ", "c", "o", "n", "s", "t", "r", "u", "c", "t", "i", "o", "n", ".", " ", "L", "o", "o", "k", " ", "f", "o", "r", " ", "s", "i", "n", "g", "l", "e", "-", "n", "e", "e", "d", "l", "e", " ", "s", "t", "i", "t", "c", "h", "i", "n", "g", ".">> ],
          [ key      |-> <<"1", "9", "9", "0", "s">>,
            patterns |-> << <<"P", "o", "l", "o", " ", "S", "p", "o", "r", "t", " ", "l", "i", "n", "e">>,
                            <<"H", "i", "-", "T", "e", "c", "h", " ", "c", "o", "l", "l", "e", "c", "t", "i", "o", "n">>,
                            <<"S", "n", "o", "w", " ", "B", "e", "a", "c", "h">>,
                            <<"S", "t", "a", "d", "i", "u", "m", " ", "1", "9", "9", "2">> >>,
            redFlags |-> << <<"I", "n", "c", "o", "r", "r", "e", "c", "t", " ", "f", "l", "a", "g", " ", "d", "e", "s", "i", "g", "n">>,
                            <<"W", "r", "o", "n", "g", " ", "f", "o", "n", "t", " ", "f", "o", "r", " ", "e", "r", "a">>,
                            <<"P", "o", "o", "r", " ", "e", "m", "b", "r", "o", "i", "d", "e", "r", "y", " ", "q", "u", "a", "l", "i", "t", "y">> >>,
            details  |-> <<"H", "i", "g", "h", "l", "y", " ", "c", "o", "l", "l", "e", "c", "t", "i", "b", "l", "e", " ", "e", "r", "a", ".", " ", "P", "o", "l", "o", " ", "S", "p", "o", "r", "t", ",", " ", "S", "n", "o", "w", " ", "B", "e", "a", "c", "h", ",", " ", "a", "n", "d", " ", "S", "t", "a", "d", "i", "u", "m", " ", "1", "9", "9", "2", " ", "c", "o", "m", "m", "a", "n", "d", " ", "p", "r", "e", "m", "i", "u", "m", " ", "p", "r", "i", "c", "e", "s", ".">> ] >> ] }

\* observedMarkers.some(m => m.toLowerCase().includes(text.toLowerCase().slice(0, 10)))
observed(observedMarkers, text) ==
    \E i \in 1..Len(observedMarkers) :
        includes(toLowerCase(observedMarkers[i]), sliceTo(toLowerCase(text), 10))

\* eraKeys.find(k => era.includes(k.replace('s', ''))) || eraKeys[eraKeys.length - 1]
matchEra(eras, era) ==
    LET hits == {i \in 1..Len(eras) : includes(era, replaceFirst(eras[i].key, "s"))}
    IN IF hits # {}
       THEN eras[CHOOSE i \in hits : \A j \in hits : i <= j]
       ELSE eras[Len(eras)]

\* The score without the clamp to [0, 100].
authenticityScoreUnclamped(numMatched, numPatterns, numRedFlags) ==
    IF numPatterns > 0
    THEN MathRound(numMatched * 100 - numRedFlags * 15 * numPatterns, numPatterns)
    ELSE 50 - numRedFlags * 15

\* Math.max(0, Math.min(100, Math.round(patternScore - redFlagPenalty)))
authenticityScore(numMatched, numPatterns, numRedFlags) ==
    LET rounded == IF numPatterns > 0
                   THEN MathRound(numMatched * 100 - numRedFlags * 15 * numPatterns, numPatterns)
                   ELSE 50 - numRedFlags * 15
    IN Max(0, Min(100, rounded))

brandPatterns(args) ==
    LET brand           == trim(toLowerCase(Arg(args, "brand", <<>>)))
        era             == trim(Arg(args, "era", <<>>))
        observedMarkers == splitTrimFilter(Arg(args, "markers", <<>>))
        brandData       == {b \in BRAND_PATTERNS : b.brand = brand}
    IN IF brandData # {}
       THEN LET eraData == matchEra((CHOOSE b \in brandData : TRUE).eras, era)
                matchedPatterns ==
                    SelectSeq(eraData.patterns, LAMBDA p : observed(observedMarkers, p))
                redFlags ==
                    SelectSeq(eraData.redFlags, LAMBDA f : observed(observedMarkers, f))
            IN [ brand             |-> Arg(args, "brand", <<"U", "n", "k", "n", "o", "w", "n">>),
                 era               |-> eraData.key,
                 authenticityScore |-> authenticityScore(Len(matchedPatterns),
                                                         Len(eraData.patterns), Len(redFlags)),
                 matchedPatterns   |-> IF Len(matchedPatterns) > 0
                                       THEN matchedPatterns ELSE eraData.patterns,
                 redFlags          |-> redFlags,
                 details           |-> eraData.details ]
       ELSE IF IsInherited(brand)
       THEN \* brandData.eras is undefined: Object.keys(undefined) throws
            Threw("TypeError")
       ELSE [ brand             |-> Arg(args, "brand", <<"U", "n", "k", "n", "o", "w", "n">>),
              era               |-> era,
              authenticityScore |-> 50,
              matchedPatterns   |-> <<>>,
              redFlags          |-> << <<"B", "r", "a", "n", "d", " ", "n", "o", "t", " ", "i", "n", " ", "d", "a", "t", "a", "b", "a", "s", "e", " ", "-", " ", "m", "a", "n", "u", "a", "l", " ", "v", "e", "r", "i", "f", "i", "c", "a", "t", "i", "o", "n", " ", "r", "e", "q", "u", "i", "r", "e", "d">> >>,
              details           |-> <<"B", "r", "a", "n", "d", " ", "\"">>
                                    \o (IF "brand" \in DOMAIN args THEN args.brand ELSE <<"u", "n", "d", "e", "f", "i", "n", "e", "d">>)
                                    \o <<"\"", " ", "n", "o", "t", " ", "f", "o", "u", "n", "d", " ", "i", "n", " ", "f", "o", "r", "e", "n", "s", "i", "c", " ", "d", "a", "t", "a", "b", "a", "s", "e", ".", " ", "M", "a", "n", "u", "a", "l", " ", "a", "u", "t", "h", "e", "n", "t", "i", "c", "a", "t", "i", "o", "n", " ", "r", "e", "c", "o", "m", "m", "e", "n", "d", "e", "d", ".">> ]

\* ------------------------------------------------------------------------
\* Tool 3: date forensics
\* ------------------------------------------------------------------------

\* confidence is held in hundredths (70 stands for 0.7).
CONSTRUCTION_MARKERS ==
    << [feature |-> <<"s", "i", "n", "g", "l", "e", "-", "n", "e", "e", "d", "l", "e">>, eraRange |-> <<1950, 1990>>, confidence |-> 70],
      [feature |-> <<"c", "h", "a", "i", "n", " ", "s", "t", "i", "t", "c", "h">>, eraRange |-> <<1950, 1985>>, confidence |-> 80],
      [feature |-> <<"s", "e", "l", "v", "e", "d", "g", "e">>, eraRange |-> <<1920, 1985>>, confidence |-> 85],
      [feature |-> <<"u", "n", "i", "o", "n", " ", "l", "a", "b", "e", "l">>, eraRange |-> <<1955, 1995>>, confidence |-> 90],
      [feature |-> <<"m", "a", "d", "e", " ", "i", "n", " ", "u", "s", "a">>, eraRange |-> <<1940, 2000>>, confidence |-> 60],
      [feature |-> <<"m", "a", "d", "e", " ", "i", "n", " ", "j", "a", "p", "a", "n">>, eraRange |-> <<1960, 1990>>, confidence |-> 70],
      [feature |-> <<"m", "a", "d", "e", " ", "i", "n", " ", "c", "h", "i", "n", "a">>, eraRange |-> <<1985, 2026>>, confidence |-> 50],
      [feature |-> <<"y", "k", "k", " ", "z", "i", "p", "p", "e", "r">>, eraRange |-> <<1960, 2026>>, confidence |-> 40],
      [feature |-> <<"t", "a", "l", "o", "n", " ", "z", "i", "p", "p", "e", "r">>, eraRange |-> <<1930, 1990>>, confidence |-> 85],
      [feature |-> <<"c", "o", "a", "t", "s", " ", "&", " ", "c", "l", "a", "r", "k">>, eraRange |-> <<1950, 2010>>, confidence |-> 60],
      [feature |-> <<"b", "a", "r", " ", "t", "a", "c", "k">>, eraRange |-> <<1960, 2026>>, confidence |-> 30],
      [feature |-> <<"r", "o", "l", "l", "e", "d", " ", "h", "e", "m">>, eraRange |-> <<1940, 1980>>, confidence |-> 75],
      [feature |-> <<"t", "r", "i", "p", "l", "e", " ", "s", "t", "i", "t", "c", "h">>, eraRange |-> <<1970, 2026>>, confidence |-> 40],
      [feature |-> <<"p", "o", "l", "y", "e", "s", "t", "e", "r">>, eraRange |-> <<1960, 2026>>, confidence |-> 30],
      [feature |-> <<"n", "y", "l", "o", "n">>, eraRange |-> <<1940, 2026>>, confidence |-> 20],
      [feature |-> <<"r", "a", "y", "o", "n">>, eraRange |-> <<1920, 2026>>, confidence |-> 30],
      [feature |-> <<"c", "a", "r", "e", " ", "l", "a", "b", "e", "l">>, eraRange |-> <<1971, 2026>>, confidence |-> 80],
      [feature |-> <<"n", "o", " ", "c", "a", "r", "e", " ", "l", "a", "b", "e", "l">>, eraRange |-> <<1920, 1971>>, confidence |-> 90] >>

RECURSIVE SumOver(_, _)
SumOver(f, n) == IF n = 0 THEN 0 ELSE f[n] + SumOver(f, n - 1)

MaxOf(f) == CHOOSE x \in {f[i] : i \in DOMAIN f} : \A i \in DOMAIN f : f[i] <= x
MinOf(f) == CHOOSE x \in {f[i] : i \in DOMAIN f} : \A i \in DOMAIN f : f[i] >= x

\* `${m.feature}: ${m.eraRange[0]}-${m.eraRange[1]} (${Math.round(m.confidence * 100)}% confidence)`
evidenceLine(m) ==
    m.feature \o <<":", " ">> \o NumToStr(m.eraRange[1]) \o <<"-">> \o NumToStr(m.eraRange[2])
    \o <<" ", "(">> \o NumToStr(m.confidence) \o <<"%", " ", "c", "o", "n", "f", "i", "d", "e", "n", "c", "e", ")">>

\* dateForensics with the weighted averages taken whether or not the
\* matched ranges overlap.
dateForensicsAveraged(args) ==
    LET details   == toLowerCase(Arg(args, "construction_details", <<>>))
        materials == toLowerCase(Arg(args, "materials", <<>>))
        combined  == details \o <<" ">> \o materials
        matchedMarkers == SelectSeq(CONSTRUCTION_MARKERS, LAMBDA m : includes(combined, m.feature))
        n == Len(matchedMarkers)
    IN IF n = 0
       THEN [ estimatedEra        |-> <<"U", "n", "d", "e", "t", "e", "r", "m", "i", "n", "e", "d">>,
              yearRange           |-> <<1960, 2020>>,
              confidence          |-> [num |-> 30, den |-> 100],
              evidence            |-> << <<"N", "o", " ", "s", "p", "e", "c", "i", "f", "i", "c", " ", "c", "o", "n", "s", "t", "r", "u", "c", "t", "i", "o", "n", " ", "m", "a", "r", "k", "e", "r", "s", " ", "i", "d", "e", "n", "t", "i", "f", "i", "e", "d">> >>,
              constructionDetails |-> <<details>>,
              materialAnalysis    |-> IF materials # <<>> THEN materials ELSE <<"N", "o", "t", " ", "s", "p", "e", "c", "i", "f", "i", "e", "d">> ]
       ELSE LET totalWeight   == SumOver([i \in 1..n |-> matchedMarkers[i].confidence], n)
                weightedStart == SumOver([i \in 1..n |-> matchedMarkers[i].eraRange[1]
                                                         * matchedMarkers[i].confidence], n)
                weightedEnd   == SumOver([i \in 1..n |-> matchedMarkers[i].eraRange[2]
                                                         * matchedMarkers[i].confidence], n)
                avgStart      == MathRound(weightedStart, totalWeight)
                avgEnd        == MathRound(weightedEnd, totalWeight)
                overlapStart  == MaxOf([i \in 1..n |-> matchedMarkers[i].eraRange[1]])
                overlapEnd    == MinOf([i \in 1..n |-> matchedMarkers[i].eraRange[2]])
                finalStart    == avgStart
                finalEnd      == avgEnd
            IN [ estimatedEra        |-> NumToStr((finalStart \div 10) * 10) \o <<"s", " ", "-", " ">>
                                         \o NumToStr((finalEnd \div 10) * 10) \o <<"s">>,
                 yearRange           |-> <<finalStart, finalEnd>>,
                 \* Math.min(0.95, totalWeight / n + n * 0.05)
                 confidence          |-> IF totalWeight + 5 * n * n >= 95 * n
                                         THEN [num |-> 95, den |-> 100]
                                         ELSE [num |-> totalWeight + 5 * n * n, den |-> 100 * n],
                 evidence            |-> [i \in 1..n |-> evidenceLine(matchedMarkers[i])],
                 constructionDetails |-> splitTrimFilter(details),
                 materialAnalysis    |-> IF materials # <<>> THEN materials ELSE <<"N", "o", "t", " ", "s", "p", "e", "c", "i", "f", "i", "e", "d">> ]

\* The result's confidence is the fraction num / den.  The quotients
\* weightedStart / totalWeight and weightedEnd / totalWeight are rounded
\* as exact fractions: for up to four matched markers the doubles of the
\* source round to the same years.
dateForensics(args) ==
    LET details   == toLowerCase(Arg(args, "construction_details", <<>>))
        materials == toLowerCase(Arg(args, "materials", <<>>))
        combined  == details \o <<" ">> \o materials
        matchedMarkers == SelectSeq(CONSTRUCTION_MARKERS, LAMBDA m : includes(combined, m.feature))
        n == Len(matchedMarkers)
    IN IF n = 0
       THEN [ estimatedEra        |-> <<"U", "n", "d", "e", "t", "e", "r", "m", "i", "n", "e", "d">>,
              yearRange           |-> <<1960, 2020>>,
              confidence          |-> [num |-> 30, den |-> 100],
              evidence            |-> << <<"N", "o", " ", "s", "p", "e", "c", "i", "f", "i", "c", " ", "c", "o", "n", "s", "t", "r", "u", "c", "t", "i", "o", "n", " ", "m", "a", "r", "k", "e", "r", "s", " ", "i", "d", "e", "n", "t", "i", "f", "i", "e", "d">> >>,
              constructionDetails |-> <<details>>,
              materialAnalysis    |-> IF materials # <<>> THEN materials ELSE <<"N", "o", "t", " ", "s", "p", "e", "c", "i", "f", "i", "e", "d">> ]
       ELSE LET totalWeight   == SumOver([i \in 1..n |-> matchedMarkers[i].confidence], n)
                weightedStart == SumOver([i \in 1..n |-> matchedMarkers[i].eraRange[1]
                                                         * matchedMarkers[i].confidence], n)
                weightedEnd   == SumOver([i \in 1..n |-> matchedMarkers[i].eraRange[2]
                                                         * matchedMarkers[i].confidence], n)
                avgStart      == MathRound(weightedStart, totalWeight)
                avgEnd        == MathRound(weightedEnd, totalWeight)
                overlapStart  == MaxOf([i \in 1..n |-> matchedMarkers[i].eraRange[1]])
                overlapEnd    == MinOf([i \in 1..n |-> matchedMarkers[i].eraRange[2]])
                finalStart    == IF overlapStart <= overlapEnd THEN overlapStart ELSE avgStart
                finalEnd      == IF overlapStart <= overlapEnd THEN overlapEnd ELSE avgEnd
            IN [ estimatedEra        |-> NumToStr((finalStart \div 10) * 10) \o <<"s", " ", "-", " ">>
                                         \o NumToStr((finalEnd \div 10) * 10) \o <<"s">>,
                 yearRange           |-> <<finalStart, finalEnd>>,
                 \* Math.min(0.95, totalWeight / n + n * 0.05)
                 confidence          |-> IF totalWeight + 5 * n * n >= 95 * n
                                         THEN [num |-> 95, den |-> 100]
                                         ELSE [num |-> totalWeight + 5 * n * n, den |-> 100 * n],
                 evidence            |-> [i \in 1..n |-> evidenceLine(matchedMarkers[i])],
                 constructionDetails |-> splitTrimFilter(details),
                 materialAnalysis    |-> IF materials # <<>> THEN materials ELSE <<"N", "o", "t", " ", "s", "p", "e", "c", "i", "f", "i", "e", "d">> ]

\* ------------------------------------------------------------------------
\* Tool 4: market search
\* ------------------------------------------------------------------------

\* A JavaScript number of this tool: Some(n), or NaN.
NaN == [nan |-> TRUE]

baseValues ==
    { [brand |-> <<"n", "i", "k", "e">>,           low |-> 80,  high |-> 450],
      [brand |-> <<"l", "e", "v", "i", "s">>,          low |-> 60,  high |-> 800],
      [brand |-> <<"r", "a", "l", "p", "h", " ", "l", "a", "u", "r", "e", "n">>,   low |-> 50,  high |-> 600],
      [brand |-> <<"t", "h", "e", " ", "n", "o", "r", "t", "h", " ", "f", "a", "c", "e">>, low |-> 70,  high |-> 350],
      [brand |-> <<"p", "a", "t", "a", "g", "o", "n", "i", "a">>,      low |-> 60,  high |-> 300],
      [brand |-> <<"c", "a", "r", "h", "a", "r", "t", "t">>,       low |-> 40,  high |-> 250],
      [brand |-> <<"c", "h", "a", "m", "p", "i", "o", "n">>,       low |-> 40,  high |-> 200],
      [brand |-> <<"s", "t", "u", "s", "s", "y">>,         low |-> 80,  high |-> 500],
      [brand |-> <<"s", "u", "p", "r", "e", "m", "e">>,        low |-> 100, high |-> 2000],
      [brand |-> <<"d", "e", "f", "a", "u", "l", "t">>,        low |-> 30,  high |-> 200] }

\* eraMultiplier, in tenths.
eraMultiplier(era) ==
    IF includes(era, <<"1", "9", "7", "0">>) \/ includes(era, <<"1", "9", "8", "0">>) THEN 18
    ELSE IF includes(era, <<"1", "9", "9", "0">>) THEN 14
    ELSE IF includes(era, <<"2", "0", "0", "0">>) THEN 8
    ELSE 10

\* Math.random() in hundredths, and what the three calls of one execution
\* may return.
RandomDraws == {0, 50, 99}
Randoms == [1..3 -> RandomDraws]

\* brandValues.low and brandValues.high are undefined for an inherited
\* member: every number computed from them is NaN.
marketSearch(args, random) ==
    LET description == Arg(args, "item_description", <<>>)
        brand       == toLowerCase(Arg(args, "brand", <<>>))
        era         == Arg(args, "era", <<>>)
        own         == {b \in baseValues : b.brand = brand}
        multiplier  == eraMultiplier(era)
        comparable(suffix, price, platform, date, condition) ==
            [ title |-> description \o suffix, price |-> price, platform |-> platform,
              date |-> date, condition |-> condition ]
        trend  == IF multiplier > 12 THEN "rising" ELSE "stable"
        demand == IF multiplier > 15 THEN "very_high"
                  ELSE IF multiplier > 10 THEN "high" ELSE "moderate"
    IN IF own = {} /\ IsInherited(brand)
       THEN [ estimatedValue  |-> [low |-> NaN, mid |-> NaN, high |-> NaN, currency |-> "USD"],
              comparableSales |->
                  << comparable(<<" ", "-", " ", "S", "i", "m", "i", "l", "a", "r", " ", "c", "o", "n", "d", "i", "t", "i", "o", "n">>, NaN, "eBay", "2026-01-15", "Good"),
                     comparable(<<" ", "-", " ", "E", "x", "c", "e", "l", "l", "e", "n", "t", " ", "c", "o", "n", "d", "i", "t", "i", "o", "n">>, NaN, "Grailed", "2026-01-10", "Excellent"),
                     comparable(<<" ", "-", " ", "F", "a", "i", "r", " ", "c", "o", "n", "d", "i", "t", "i", "o", "n">>, NaN, "Depop", "2025-12-28", "Fair") >>,
              marketTrend     |-> trend,
              demandLevel     |-> demand ]
       ELSE LET brandValues == IF own # {} THEN CHOOSE b \in own : TRUE
                               ELSE CHOOSE b \in baseValues : b.brand = <<"d", "e", "f", "a", "u", "l", "t">>
                low  == MathRound(brandValues.low * multiplier, 10)
                high == MathRound(brandValues.high * multiplier, 10)
                mid  == MathRound(low + high, 2)
            IN [ estimatedValue  |-> [low |-> Some(low), mid |-> Some(mid), high |-> Some(high),
                                      currency |-> "USD"],
                 comparableSales |->
                     << comparable(<<" ", "-", " ", "S", "i", "m", "i", "l", "a", "r", " ", "c", "o", "n", "d", "i", "t", "i", "o", "n">>,
                                   Some(mid + MathRound(random[1] * 50 - 2500, 100)),
                                   "eBay", "2026-01-15", "Good"),
                        comparable(<<" ", "-", " ", "E", "x", "c", "e", "l", "l", "e", "n", "t", " ", "c", "o", "n", "d", "i", "t", "i", "o", "n">>,
                                   Some(high - MathRound(random[2] * 50, 100)),
                                   "Grailed", "2026-01-10", "Excellent"),
                        comparable(<<" ", "-", " ", "F", "a", "i", "r", " ", "c", "o", "n", "d", "i", "t", "i", "o", "n">>,
                                   Some(low + MathRound(random[3] * 30, 100)),
                                   "Depop", "2025-12-28", "Fair") >>,
                 marketTrend     |-> trend,
                 demandLevel     |-> demand ]

\* ------------------------------------------------------------------------
\* Tool router
\* ------------------------------------------------------------------------

\* The own properties of TOOL_MAP.
TOOL_MAP == {"rn_lookup", "brand_patterns", "date_forensics", "market_search"}

Resolved(toolName, args, value) ==
    [ok |-> TRUE, error |-> "", tool |-> toolName, args |-> args, ran |-> TRUE, value |-> value]

Rejected(toolName, args, error, ran) ==
    [ok |-> FALSE, error |-> error, tool |-> toolName, args |-> args, ran |-> ran, value |-> NONE]

\* TOOL_MAP[toolName]: a registered tool, a member inherited from
\* Object.prototype, or undefined.
lookup(toolName) ==
    IF toolName \in TOOL_MAP THEN "tool"
    ELSE IF toolName \in ObjectPrototype THEN "inherited"
    ELSE "undefined"

\* The settled promise executeToolCall returns.  random is what
\* Math.random returns to the tool.  An inherited member is called with
\* this undefined: Object (the constructor) returns its argument, toString
\* returns "[object Undefined]", __proto__ is not callable and the other
\* members throw on this.
\* tool(args) for a registered name, with the draws of Math.random.
tool(toolName, args, random) ==
    CASE toolName = "rn_lookup"      -> rnLookup(args)
      [] toolName = "brand_patterns" -> brandPatterns(args)
      [] toolName = "date_forensics" -> dateForensics(args)
      [] toolName = "market_search"  -> marketSearch(args, random)

\* return tool(args) in the async function: the promise is fulfilled with
\* the tool's value, and rejected when the tool threw.
Returned(toolName, args, value) ==
    IF "threw" \in DOMAIN value
    THEN Rejected(toolName, args, value.threw, TRUE)
    ELSE Resolved(toolName, args, value)

executeToolCall(toolName, args, random) ==
    CASE lookup(toolName) = "undefined" ->
            Rejected(toolName, args, "Unknown tool", FALSE)
      [] lookup(toolName) = "inherited" ->
            IF toolName = "constructor" THEN Resolved(toolName, args, args)
            ELSE IF toolName = "toString"
            THEN Resolved(toolName, args, [string |-> "[object Undefined]"])
            ELSE Rejected(toolName, args, "TypeError", toolName # "__proto__")
      [] lookup(toolName) = "tool" -> Returned(toolName, args, tool(toolName, args, random))

\* ------------------------------------------------------------------------
\* Inputs: what the environment may supply
\* ------------------------------------------------------------------------

EmptyText == <<>>
\* "Confidence: 85%"
Text85 == <<W("Confidence"), COLON, SP, N(<<8, 5>>), PCT>>
\* "confidence: 69%"
Text69 == <<W("confidence"), COLON, SP, N(<<6, 9>>), PCT>>
\* "confidence 70%"
Text70 == <<W("confidence"), SP, N(<<7, 0>>), PCT>>
\* "Score: 55"
Text55 == <<W("Score"), COLON, SP, N(<<5, 5>>)>>
\* "confidence 54 %": no pattern matches
Text54 == <<W("confidence"), SP, N(<<5, 4>>), SP, PCT>>
\* "confidence: 1500% confident"
Text1500 == <<W("confidence"), COLON, SP, N(<<1, 5, 0, 0>>), PCT, SP, W("confident")>>

Texts == {EmptyText, Text85, Text69, Text70, Text55, Text54, Text1500}

\* Texts that state a confidence: "Confidence: n%" for n up to
\* MaxStatedConfidence.
MaxStatedConfidence == 150

ConfidenceText(n) ==
    << W("Confidence"), COLON, SP,
       N([i \in 1..Len(NumToStr(n)) |-> DigitValue(NumToStr(n)[i])]), PCT >>

\* Texts for the other fields the parser extracts.
FieldTexts ==
    {
      \* "Brand: Nike.\nEra: 1990s\nProduced 1988 - 1998\nValue: $1,200 - $2,500"
      << W("Brand"), W(":"), W(" "), W("Nike"), W("."), W("\n"), W("Era"), W(":"), W(" "),
         N(<<1, 9, 9, 0>>), W("s"), W("\n"), W("Produced"), W(" "), N(<<1, 9, 8, 8>>), W(" "),
         W("-"), W(" "), N(<<1, 9, 9, 8>>), W("\n"), W("Value"), W(":"), W(" "), W("$"),
         N(<<1>>), W(","), N(<<2, 0, 0>>), W(" "), W("-"), W(" "), W("$"), N(<<2>>), W(","),
         N(<<5, 0, 0>>) >>,
      \* "Brands & Co, x"
      << W("Brands"), W(" "), W("&"), W(" "), W("Co"), W(","), W(" "), W("x") >>,
      \* "brand:  \n"
      << W("brand"), W(":"), W(" "), W(" "), W("\n") >>,
      \* "camera 1990s-2000"
      << W("camera"), W(" "), N(<<1, 9, 9, 0>>), W("s"), W("-"), N(<<2, 0, 0, 0>>) >>,
      \* "late 1985s."
      << W("late"), W(" "), N(<<1, 9, 8, 5>>), W("s"), W(".") >>,
      \* "119850u201320001"
      << N(<<1, 1, 9, 8, 5, 0>>), W("u2013"), N(<<2, 0, 0, 0, 1>>) >>,
      \* "Red flags:\n- x tag\nu2022 Nike\n\n- late"
      << W("Red"), W(" "), W("flags"), W(":"), W("\n"), W("-"), W(" "), W("x"), W(" "),
         W("tag"), W("\n"), W("u2022"), W(" "), W("Nike"), W("\n"), W("\n"), W("-"), W(" "),
         W("late") >>,
      \* "Red flags: - \t"
      << W("Red"), W(" "), W("flags"), W(":"), W(" "), W("-"), W(" "), W("\t") >>,
      \* "Verified markers:\n- tag one\n* tag two\n\nRed flags: none"
      << W("Verified"), W(" "), W("markers"), W(":"), W("\n"), W("-"), W(" "), W("tag"),
         W(" "), W("one"), W("\n"), W("*"), W(" "), W("tag"), W(" "), W("two"), W("\n"),
         W("\n"), W("Red"), W(" "), W("flags"), W(":"), W(" "), W("none") >>,
      \* "$12-$1234"
      << W("$"), N(<<1, 2>>), W("-"), W("$"), N(<<1, 2, 3, 4>>) >>,
      \* "$1,23 - $5"
      << W("$"), N(<<1>>), W(","), N(<<2, 3>>), W(" "), W("-"), W(" "), W("$"), N(<<5>>) >>,
      \* "$5 - $6,7890"
      << W("$"), N(<<5>>), W(" "), W("-"), W(" "), W("$"), N(<<6>>), W(","),
         N(<<7, 8, 9, 0>>) >> }

\* Texts that speak of authenticity.
VerdictTexts ==
    {
      \* "Authentic"
      << W("Authentic") >>,
      \* "genuine and legitimate."
      << W("genuine"), W(" "), W("and"), W(" "), W("legitimate"), W(".") >>,
      \* "Not authentic"
      << W("Not"), W(" "), W("authentic") >>,
      \* "authentic, not genuine"
      << W("authentic"), W(","), W(" "), W("not"), W(" "), W("genuine") >>,
      \* "not\nauthentic"
      << W("not"), W("\n"), W("authentic") >>,
      \* "cannot authenticate"
      << W("cannot"), W(" "), W("authenticate") >>,
      \* "inauthentic"
      << W("inauthentic") >>,
      \* "REAL Replica"
      << W("REAL"), W(" "), W("Replica") >>,
      \* "FAKE"
      << W("FAKE") >>,
      \* "real, verified, genuine: counterfeit"
      << W("real"), W(","), W(" "), W("verified"), W(","), W(" "), W("genuine"), W(":"),
         W(" "), W("counterfeit") >>,
      \* "genuine, unlike the fakes"
      << W("genuine"), W(","), W(" "), W("unlike"), W(" "), W("the"), W(" "), W("fakes") >>,
      \* "verified: no reproductions"
      << W("verified"), W(":"), W(" "), W("no"), W(" "), W("reproductions") >>,
      \* "real2 fake"
      << W("real"), N(<<2>>), W(" "), W("fake") >>,
      \* "1990real"
      << N(<<1, 9, 9, 0>>), W("real") >>,
      \* "really unverified"
      << W("really"), W(" "), W("unverified") >> }

UnitTexts == Texts \cup FieldTexts \cup VerdictTexts \cup {ConfidenceText(n) : n \in 0..MaxStatedConfidence}

\* parseAuthenticationResponse of every text of the model, computed once
\* for each text.
ParsedTexts == [text \in UnitTexts |-> parseAuthenticationResponse(text)]

\* The text parts a reply that requests function calls may carry.
TextsWithCalls == {EmptyText, Text85}

FunctionCall(name, args) == [name |-> name, args |-> args]

RequestOrder ==
    << FunctionCall("rn_lookup", [rn_number |-> <<"R", "N", " ", "4", "2", "8", "5", "0">>]),
       FunctionCall("brand_patterns", [brand |-> <<"N", "i", "k", "e">>, era |-> <<"1", "9", "9", "0", "s">>]),
       FunctionCall("date_forensics", [category |-> <<"j", "a", "c", "k", "e", "t">>,
                                       construction_details |-> <<"s", "e", "l", "v", "e", "d", "g", "e">>]),
       FunctionCall("market_search", [item_description |-> <<"n", "i", "k", "e", " ", "w", "i", "n", "d", "b", "r", "e", "a", "k", "e", "r">>]) >>

UnknownCall == FunctionCall("delete_everything", [target |-> <<"a", "l", "l">>])

\* The lists of calls a reply may request: the first call of RequestOrder
\* alone or its first MaxCallsPerRound calls, or such a list with one call
\* replaced by a call of an unregistered name.
KnownCallLists ==
    {SubSeq(RequestOrder, 1, k) : k \in {1, Min(MaxCallsPerRound, Len(RequestOrder))}}

CallLists ==
    KnownCallLists \cup
    UNION {{[l EXCEPT ![j] = UnknownCall] : j \in 1..Len(l)} : l \in KnownCallLists}

\* A reply of the hosted model.  functionCalls() is undefined when the
\* reply requests no call: <<>> stands for undefined.
ModelReplies ==
    {[functionCalls |-> <<>>, text |-> t] : t \in Texts} \cup
    {[functionCalls |-> c, text |-> t] : c \in CallLists, t \in TextsWithCalls}

\* A call of a name TOOL_MAP inherits from Object.prototype, and the
\* reply that requests it.  The model offers it as a first reply only.
InheritedCall == FunctionCall("constructor", [target |-> <<"a", "l", "l">>])

FirstReplies ==
    ModelReplies \cup
    {[functionCalls |-> <<InheritedCall>>, text |-> EmptyText]}

\* The values of VITE_GEMINI_API_KEY || ''.
EnvApiKeys == {"", "env-key"}

\* The config argument: a Partial<GeminiConfig>.
Configs ==
    { [maxRetries |-> 2],
      [selfCorrectionThreshold |-> 55],
      [apiKey |-> ""] }

\* ------------------------------------------------------------------------
\* State
\* ------------------------------------------------------------------------

VARIABLES
    pc,             \* where authenticateItem is suspended
    envApiKey,      \* import.meta.env.VITE_GEMINI_API_KEY || ''
    mergedConfig,
    chat,           \* the model session: NONE until startChat
    sent,           \* the messages passed to chat.sendMessage, in order
    result,         \* the last reply received
    toolCallCount,
    functionCalls,  \* the calls of the round being executed
    settled,        \* the promise of each call's executeToolCall
    resumed,        \* how many callbacks of the round have resumed
    toolResponses,  \* the values of the callbacks that returned
    toolsExecuted,  \* how many tool functions have been run
    progress,       \* the events passed to onProgress, in order
    authResult,
    correctedResult,
    returned,       \* the resolved value of the promise
    returnSite,     \* which return statement produced it
    thrown,         \* the error that rejected the promise
    view,           \* the App's state
    scanning,
    error,
    showDemo,
    isDemoResult,
    inFlight,       \* how many authenticateItem promises handleCapture awaits
    cameraState,    \* the mounted CameraCapture's state and streamRef.current
    capturedImage,
    facingMode,
    errorMessage,
    streamRef,
    awaiting        \* how many CameraCapture continuations are pending, by kind

vars ==
    << pc, envApiKey, mergedConfig, chat, sent, result, toolCallCount,
       functionCalls, settled, resumed, toolResponses, toolsExecuted,
       progress, authResult, correctedResult, returned, returnSite, thrown,
       view, scanning, error, showDemo, isDemoResult, inFlight, cameraState,
       capturedImage, facingMode, errorMessage, streamRef, awaiting >>

uiVars ==
    << view, scanning, error, showDemo, isDemoResult, inFlight, cameraState,
       capturedImage, facingMode, errorMessage, streamRef, awaiting >>

\* useState's and useRef's initial values in CameraCapture
NotRendered ==
    /\ cameraState = "idle"
    /\ capturedImage = NONE
    /\ facingMode = "environment"
    /\ errorMessage = ""
    /\ streamRef = NONE
    /\ awaiting = [getUserMedia |-> 0, play |-> 0, reader |-> 0, unmountedStart |-> 0, unmountedReader |-> 0]

\* useState's initial values in App
NoApp ==
    /\ view = "home"
    /\ scanning = FALSE
    /\ error = NONE
    /\ showDemo = FALSE
    /\ isDemoResult = FALSE
    /\ inFlight = 0
    /\ NotRendered

Event(status, step, toolName) == [status |-> status, step |-> step, toolName |-> toolName]

Message(kind, parts) == [kind |-> kind, parts |-> parts]

Error(name, during) == [name |-> name, during |-> during]

Init ==
    /\ pc = "idle"
    /\ envApiKey \in EnvApiKeys
    /\ mergedConfig = NONE
    /\ chat = NONE
    /\ sent = <<>>
    /\ result = NONE
    /\ toolCallCount = 0
    /\ functionCalls = <<>>
    /\ settled = <<>>
    /\ resumed = 0
    /\ toolResponses = <<>>
    /\ toolsExecuted = 0
    /\ progress = <<>>
    /\ authResult = NONE
    /\ correctedResult = NONE
    /\ returned = NONE
    /\ returnSite = "none"
    /\ thrown = NONE
    /\ NoApp

\* ------------------------------------------------------------------------
\* authenticateItem
\* ------------------------------------------------------------------------

maxToolCalls == 8

\* The loop test with the ceiling off by one.
whileConditionOffByOne(res, count) == res.functionCalls # <<>> /\ count <= maxToolCalls

\* while (result.functionCalls() && toolCallCount < maxToolCalls)
whileCondition(res, count) == res.functionCalls # <<>> /\ count < maxToolCalls

\* The threshold test with <= in place of <.
needsSelfCorrectionInclusive(confidence, config) ==
    confidence <= ThresholdTimes100(config.selfCorrectionThreshold).floor

\* if (authResult.confidence < mergedConfig.selfCorrectionThreshold * 100)
needsSelfCorrection(confidence, config) ==
    LessThanDouble(confidence, ThresholdTimes100(config.selfCorrectionThreshold))

\* The choice between the candidates with the corrected one always taken.
adoptCorrectedAlways(corrected, initial) == TRUE

\* The choice between the candidates with >= in place of >.
adoptCorrectedOnTie(corrected, initial) == corrected.confidence >= initial.confidence

\* if (correctedResult.confidence > authResult.confidence)
adoptCorrected(corrected, initial) == corrected.confidence > initial.confidence

\* The call itself, up to the first await: merge the configuration, report,
\* create the client (which throws on an empty key), start the chat and
\* send the prompt with the image.
authenticateItem(config) ==
    /\ pc = "idle"
    /\ LET merged == MergeConfig(DEFAULT_CONFIG(envApiKey), config)
           p1 == Append(progress, Event("analyzing", 1, ""))
       IN /\ mergedConfig' = merged
          /\ IF createClientThrows(merged)
             THEN /\ progress' = p1
                  /\ thrown' = Error("VITE_GEMINI_API_KEY is required", "createClient")
                  /\ pc' = "failed"
                  /\ UNCHANGED <<chat, sent>>
             ELSE /\ progress' = Append(p1, Event("analyzing", 2, ""))
                  /\ chat' = "open"
                  /\ sent' = Append(sent, Message("initial", <<>>))
                  /\ pc' = "await_initial"
                  /\ UNCHANGED thrown
    /\ UNCHANGED uiVars
    /\ UNCHANGED << envApiKey, result, toolCallCount, functionCalls, settled, resumed,
                    toolResponses, toolsExecuted, authResult, correctedResult,
                    returned, returnSite >>

\* One pass through the loop body up to Promise.all: count the round,
\* report it, and map the calls.  Each callback runs executeToolCall to
\* completion (the tool functions are synchronous) and suspends at its
\* await, so every registered tool of the round has run when map returns.
DispatchRound(res) ==
    LET calls == res.functionCalls
        drawing == {i \in 1..Len(calls) : calls[i].name = "market_search"}
    IN \E random \in [drawing -> Randoms] :
       \E promises \in {[i \in 1..Len(calls) |->
                            executeToolCall(calls[i].name, calls[i].args,
                                            IF i \in drawing THEN random[i] ELSE <<>>)]} :
          /\ result' = res
          /\ functionCalls' = calls
          /\ toolCallCount' = toolCallCount + 1
          /\ progress' = Append(progress, Event("tool_calling", 3, calls[1].name))
          /\ settled' = promises
          /\ toolsExecuted' = toolsExecuted + Cardinality({i \in 1..Len(calls) : promises[i].ran})
          /\ resumed' = 0
          /\ toolResponses' = <<>>
          /\ pc' = "tools"
          /\ UNCHANGED uiVars
          /\ UNCHANGED << envApiKey, mergedConfig, chat, sent, authResult, correctedResult,
                          returned, returnSite, thrown >>

\* Synthesize with the synthesis report placed after the confidence check.
SynthesizeReportsLate(res) ==
    \E parsed \in {ParsedTexts[res.text]} :
       /\ result' = res
       /\ authResult' = parsed
       /\ IF needsSelfCorrection(parsed.confidence, mergedConfig)
          THEN /\ progress' = Append(Append(progress, Event("self_correcting", 5, "")),
                                     Event("analyzing", 4, ""))
               /\ sent' = Append(sent, Message("correction", <<parsed.confidence>>))
               /\ pc' = "await_correction"
               /\ UNCHANGED <<returned, returnSite>>
          ELSE /\ progress' = Append(Append(progress, Event("analyzing", 4, "")),
                                     Event("complete", 6, ""))
               /\ returned' = parsed
               /\ returnSite' = "authResult"
               /\ pc' = "done"
               /\ UNCHANGED sent
       /\ UNCHANGED uiVars
       /\ UNCHANGED << envApiKey, mergedConfig, chat, toolCallCount, functionCalls, settled,
                       resumed, toolResponses, toolsExecuted, correctedResult, thrown >>

\* After the loop: report, parse the final text, and either send the
\* corrective turn or report completion and return.
Synthesize(res) ==
    \E parsed \in {ParsedTexts[res.text]} :
    LET p1 == Append(progress, Event("analyzing", 4, ""))
    IN /\ result' = res
       /\ authResult' = parsed
       /\ IF needsSelfCorrection(parsed.confidence, mergedConfig)
          THEN /\ progress' = Append(p1, Event("self_correcting", 5, ""))
               /\ sent' = Append(sent, Message("correction", <<parsed.confidence>>))
               /\ pc' = "await_correction"
               /\ UNCHANGED <<returned, returnSite>>
          ELSE /\ progress' = Append(p1, Event("complete", 6, ""))
               /\ returned' = parsed
               /\ returnSite' = "authResult"
               /\ pc' = "done"
               /\ UNCHANGED sent
       /\ UNCHANGED uiVars
       /\ UNCHANGED << envApiKey, mergedConfig, chat, toolCallCount, functionCalls, settled,
                       resumed, toolResponses, toolsExecuted, correctedResult, thrown >>

\* The loop test, with the reply just received in result.
LoopHead(res) == IF whileCondition(res, toolCallCount) THEN DispatchRound(res) ELSE Synthesize(res)

\* The first sendMessage resolves.
InitialReply(res) ==
    /\ pc = "await_initial"
    /\ LoopHead(res)

\* The sendMessage of a round's tool responses resolves.
ToolReply(res) ==
    /\ pc = "await_tools"
    /\ LoopHead(res)

\* CallbackResumes without the report of the completed call.
CallbackResumesUnreported ==
    /\ pc = "tools"
    /\ resumed < Len(functionCalls)
    /\ LET i == resumed + 1 IN
       /\ resumed' = i
       /\ IF settled[i].ok
          THEN toolResponses' =
                   Append(toolResponses, [name |-> functionCalls[i].name,
                                          response |-> settled[i].value])
          ELSE UNCHANGED toolResponses
    /\ UNCHANGED uiVars
    /\ UNCHANGED << pc, envApiKey, mergedConfig, chat, sent, result, toolCallCount, functionCalls,
                    settled, toolsExecuted, progress, authResult, correctedResult, returned,
                    returnSite, thrown >>

\* The next callback of the round resumes from its await, in request
\* order: it throws if executeToolCall rejected, and otherwise reports the
\* call and returns its function response.
CallbackResumes ==
    /\ pc = "tools"
    /\ resumed < Len(functionCalls)
    /\ LET i == resumed + 1 IN
       /\ resumed' = i
       /\ IF settled[i].ok
          THEN /\ progress' = Append(progress, Event("tool_calling", 3, functionCalls[i].name))
               /\ toolResponses' =
                      Append(toolResponses, [name |-> functionCalls[i].name,
                                             response |-> settled[i].value])
          ELSE UNCHANGED <<progress, toolResponses>>
    /\ UNCHANGED uiVars
    /\ UNCHANGED << pc, envApiKey, mergedConfig, chat, sent, result, toolCallCount, functionCalls,
                    settled, toolsExecuted, authResult, correctedResult, returned,
                    returnSite, thrown >>

\* PromiseAllSettles as a race: authenticateItem resumes as soon as one
\* callback of the round has returned.
PromiseAllSettlesAfterFirst ==
    /\ pc = "tools"
    /\ resumed >= 1
    /\ IF \E i \in 1..resumed : ~settled[i].ok
       THEN /\ thrown' = Error(settled[1].error, "tools")
            /\ pc' = "failed"
            /\ UNCHANGED sent
       ELSE /\ sent' = Append(sent, Message("tool_responses", toolResponses))
            /\ pc' = "await_tools"
            /\ UNCHANGED thrown
    /\ UNCHANGED uiVars
    /\ UNCHANGED << envApiKey, mergedConfig, chat, result, toolCallCount, functionCalls, settled,
                    resumed, toolResponses, toolsExecuted, progress, authResult,
                    correctedResult, returned, returnSite >>

\* authenticateItem resumes from await Promise.all, after every callback
\* of the round: the first rejection of a callback is rethrown, and
\* otherwise the responses are sent to the model.
PromiseAllSettles ==
    /\ pc = "tools"
    /\ resumed = Len(functionCalls)
    /\ IF \E i \in 1..Len(settled) : ~settled[i].ok
       THEN /\ LET first == CHOOSE i \in 1..Len(settled) :
                                ~settled[i].ok /\ \A j \in 1..(i - 1) : settled[j].ok
               IN thrown' = Error(settled[first].error, "tools")
            /\ pc' = "failed"
            /\ UNCHANGED sent
       ELSE /\ sent' = Append(sent, Message("tool_responses", toolResponses))
            /\ pc' = "await_tools"
            /\ UNCHANGED thrown
    /\ UNCHANGED uiVars
    /\ UNCHANGED << envApiKey, mergedConfig, chat, result, toolCallCount, functionCalls, settled,
                    resumed, toolResponses, toolsExecuted, progress, authResult,
                    correctedResult, returned, returnSite >>

\* CorrectionReply that asks again while the corrected candidate is still
\* below the threshold.
CorrectionReplyAgain(res) ==
    /\ pc = "await_correction"
    /\ \E corrected \in {ParsedTexts[res.text]} :
       /\ correctedResult' = corrected
       /\ IF needsSelfCorrection(corrected.confidence, mergedConfig)
          THEN /\ progress' = Append(progress, Event("self_correcting", 5, ""))
               /\ sent' = Append(sent, Message("correction", <<corrected.confidence>>))
               /\ UNCHANGED <<pc, returned, returnSite>>
          ELSE /\ progress' = Append(progress, Event("complete", 6, ""))
               /\ IF adoptCorrected(corrected, authResult)
                  THEN returned' = corrected /\ returnSite' = "correctedResult"
                  ELSE returned' = authResult /\ returnSite' = "authResult"
               /\ pc' = "done"
               /\ UNCHANGED sent
    /\ UNCHANGED uiVars
    /\ UNCHANGED << envApiKey, mergedConfig, chat, result, toolCallCount, functionCalls,
                    settled, resumed, toolResponses, toolsExecuted, authResult, thrown >>

\* CorrectionReply whose improved branch reports completion but does not
\* return, so that the final report and return follow it.
CorrectionReplyFallsThrough(res) ==
    /\ pc = "await_correction"
    /\ \E corrected \in {ParsedTexts[res.text]} :
       LET p1 == IF adoptCorrected(corrected, authResult)
                 THEN Append(progress, Event("complete", 6, ""))
                 ELSE progress
       IN /\ correctedResult' = corrected
          /\ progress' = Append(p1, Event("complete", 6, ""))
          /\ returned' = authResult
          /\ returnSite' = "authResult"
          /\ pc' = "done"
    /\ UNCHANGED uiVars
    /\ UNCHANGED << envApiKey, mergedConfig, chat, sent, result, toolCallCount, functionCalls,
                    settled, resumed, toolResponses, toolsExecuted, authResult, thrown >>

\* The sendMessage of the corrective turn resolves.
CorrectionReply(res) ==
    /\ pc = "await_correction"
    /\ \E corrected \in {ParsedTexts[res.text]} :
       /\ correctedResult' = corrected
       /\ progress' = Append(progress, Event("complete", 6, ""))
       /\ IF adoptCorrected(corrected, authResult)
          THEN returned' = corrected /\ returnSite' = "correctedResult"
          ELSE returned' = authResult /\ returnSite' = "authResult"
       /\ pc' = "done"
    /\ UNCHANGED uiVars
    /\ UNCHANGED << envApiKey, mergedConfig, chat, sent, result, toolCallCount, functionCalls,
                    settled, resumed, toolResponses, toolsExecuted, authResult, thrown >>

\* SendMessageRejects with one retry: the rejected message is sent again
\* once before the rejection is let through.
SendMessageRejectsRetries ==
    /\ pc \in {"await_initial", "await_tools", "await_correction"}
    /\ IF Len(sent) >= 2 /\ sent[Len(sent)] = sent[Len(sent) - 1]
       THEN /\ thrown' = Error("ApiError", pc)
            /\ pc' = "failed"
            /\ UNCHANGED sent
       ELSE /\ sent' = Append(sent, sent[Len(sent)])
            /\ UNCHANGED <<pc, thrown>>
    /\ UNCHANGED uiVars
    /\ UNCHANGED << envApiKey, mergedConfig, chat, result, toolCallCount, functionCalls,
                    settled, resumed, toolResponses, toolsExecuted, progress, authResult,
                    correctedResult, returned, returnSite >>

\* A sendMessage rejects: no await of authenticateItem is inside a try, so
\* the rejection leaves the function.
SendMessageRejects ==
    /\ pc \in {"await_initial", "await_tools", "await_correction"}
    /\ thrown' = Error("ApiError", pc)
    /\ pc' = "failed"
    /\ UNCHANGED uiVars
    /\ UNCHANGED << envApiKey, mergedConfig, chat, sent, result, toolCallCount, functionCalls,
                    settled, resumed, toolResponses, toolsExecuted, progress, authResult,
                    correctedResult, returned, returnSite >>

Next ==
    \/ \E config \in Configs : authenticateItem(config)
    \/ \E res \in FirstReplies : InitialReply(res)
    \/ \E res \in ModelReplies : ToolReply(res)
    \/ CallbackResumes
    \/ PromiseAllSettles
    \/ \E res \in ModelReplies : CorrectionReply(res)
    \/ SendMessageRejects

Spec == Init /\ [][Next]_vars

\* ------------------------------------------------------------------------
\* The tools and the parser on their own
\* ------------------------------------------------------------------------

\* A second specification: one call of executeToolCall made twice, or one
\* text given to parseAuthenticationResponse.  The call is in
\* functionCalls, the settled promises of its executions in settled; the
\* text is in result and what the parser builds in authResult.

RnNumbers == (13660..13680) \cup (14980..14995) \cup {0, 9, 16305, 42850, 101243, 999999}

RnInputs ==
    {NumToStr(n) : n \in RnNumbers} \cup
    { <<>>, <<"a", "b", "c">>, <<"R", "N", " ", "4", "2", "8", "5", "0">>, <<"R", "N", "-", "7", "3", "2", "7", "7">>, <<"r", "n", " ", "0", "1", "3", "6", "7", "0">>, <<"R", "N", " ", "1", " ", "3", " ", "6", " ", "7", " ", "0">>, <<"W", "P", "L", " ", "1", "2", "3", "4">> }

BrandInputs ==
    { <<>>, <<"N", "i", "k", "e">>, <<" ", "L", "E", "V", "I", "S", " ">>, <<"r", "a", "l", "p", "h", " ", "l", "a", "u", "r", "e", "n">>, <<"l", "e", "v", "i", "s">>, <<"G", "a", "p">>, <<"n", "i", "k", "e", " ", "a", "i", "r">>,
      <<"d", "e", "f", "a", "u", "l", "t">>, <<"c", "o", "n", "s", "t", "r", "u", "c", "t", "o", "r">>, <<" ", "C", "o", "n", "s", "t", "r", "u", "c", "t", "o", "r">>, <<"_", "_", "p", "r", "o", "t", "o", "_", "_">>, <<"t", "o", "S", "t", "r", "i", "n", "g">> }

EraInputs == { <<>>, <<"1", "9", "7", "0", "s">>, <<"1", "9", "8", "0">>, <<"1", "9", "9", "0", "s">>, <<"2", "0", "0", "0", "s">>, <<"1", "9", "9", "0", "-", "2", "0", "0", "0">>, <<"c", "i", "r", "c", "a", " ", "1", "9", "8", "5">> }

MarkerInputs ==
    { <<>>, <<"w", "h", "i", "t", "e", " ", "t", "a", "g", ",", " ", "G", "r", "e", "y", " ", "t", "a", "g">>, <<"M", "a", "d", "e", " ", "i", "n", " ", "U", "S", "A">>,
      <<"B", "i", "g", " ", "E", " ", "(", "L", "E", "V", "I", "'", "S", ")", ",", " ", "c", "h", "a", "i", "n", " ", "s", "t", "i", "t", "c", "h", " ", "h", "e", "m", "s", ",", " ", "s", "t", "r", "e", "t", "c", "h", " ", "d", "e", "n", "i", "m">>,
      <<"G", "r", "e", "y", " ", "t", "a", "g", " ", "(", "t", "o", "o", " ", "e", "a", "r", "l", "y", ")", ",", "F", "l", "e", "x", "/", "R", "e", "a", "c", "t">> }

DetailInputs == { <<>>, <<"S", "e", "l", "v", "e", "d", "g", "e", ",", " ", "c", "h", "a", "i", "n", " ", "s", "t", "i", "t", "c", "h", " ">>, <<"m", "a", "d", "e", " ", "i", "n", " ", "c", "h", "i", "n", "a", ",", " ", "n", "o", " ", "c", "a", "r", "e", " ", "l", "a", "b", "e", "l">>, <<"p", "l", "a", "i", "n">> }

\* Names that are no own property of TOOL_MAP.
UnregisteredNames ==
    ObjectPrototype \cup {"", "delete_everything", "RN_LOOKUP", "rnLookup", "market_search "}

UnitCalls ==
    {FunctionCall("rn_lookup", [rn_number |-> s]) : s \in RnInputs} \cup
    {FunctionCall("rn_lookup", [brand |-> <<"N", "i", "k", "e">>])} \cup
    {FunctionCall("brand_patterns", [brand |-> b, era |-> e, markers |-> m]) :
        b \in BrandInputs, e \in EraInputs, m \in MarkerInputs} \cup
    {FunctionCall("brand_patterns", [era |-> <<"1", "9", "9", "0", "s">>])} \cup
    {FunctionCall("date_forensics", [construction_details |-> d, materials |-> m]) :
        d \in DetailInputs, m \in {<<>>, <<"N", "y", "l", "o", "n">>}} \cup
    {FunctionCall("date_forensics", [construction_details |-> CONSTRUCTION_MARKERS[k].feature, materials |-> <<>>]) :
        k \in 1..Len(CONSTRUCTION_MARKERS)} \cup
    {FunctionCall("market_search", [item_description |-> <<"j", "a", "c", "k", "e", "t">>, brand |-> b, era |-> e]) :
        b \in BrandInputs, e \in EraInputs} \cup
    {FunctionCall(name, args) :
        name \in UnregisteredNames, args \in {[rn_number |-> <<"R", "N", " ", "4", "2", "8", "5", "0">>], [target |-> <<"a", "l", "l">>]}}

UnitInit ==
    /\ pc = "unit"
    /\ \/ /\ functionCalls \in {<<call>> : call \in UnitCalls}
          /\ result = NONE
       \/ /\ functionCalls = <<>>
          /\ result \in {[functionCalls |-> <<>>, text |-> t] : t \in UnitTexts}
    /\ envApiKey = ""
    /\ mergedConfig = NONE
    /\ chat = NONE
    /\ sent = <<>>
    /\ toolCallCount = 0
    /\ settled = <<>>
    /\ resumed = 0
    /\ toolResponses = <<>>
    /\ toolsExecuted = 0
    /\ progress = <<>>
    /\ authResult = NONE
    /\ correctedResult = NONE
    /\ returned = NONE
    /\ returnSite = "none"
    /\ thrown = NONE
    /\ NoApp

\* await executeToolCall(call.name, call.args), a first and a second time.
RunTool ==
    /\ pc = "unit"
    /\ Len(functionCalls) = 1
    /\ Len(settled) < 2
    /\ LET call == functionCalls[1] IN
       \E random \in (IF call.name = "market_search" THEN Randoms ELSE {<<>>}) :
          \E promise \in {executeToolCall(call.name, call.args, random)} :
             /\ settled' = Append(settled, promise)
             /\ toolsExecuted' = toolsExecuted + (IF promise.ran THEN 1 ELSE 0)
    /\ UNCHANGED uiVars
    /\ UNCHANGED << pc, envApiKey, mergedConfig, chat, sent, result, toolCallCount, functionCalls,
                    resumed, toolResponses, progress, authResult, correctedResult, returned,
                    returnSite, thrown >>

\* parseAuthenticationResponse(result.text)
ParseText ==
    /\ pc = "unit"
    /\ Len(functionCalls) = 0
    /\ authResult = NONE
    /\ authResult' = ParsedTexts[result.text]
    /\ UNCHANGED uiVars
    /\ UNCHANGED << pc, envApiKey, mergedConfig, chat, sent, result, toolCallCount, functionCalls,
                    settled, resumed, toolResponses, toolsExecuted, progress, correctedResult,
                    returned, returnSite, thrown >>

UnitNext ==
    \/ RunTool
    \/ ParseText

SpecUnit == UnitInit /\ [][UnitNext]_vars

\* ------------------------------------------------------------------------
\* The App and its CameraCapture
\* ------------------------------------------------------------------------

MaxInFlight == 2    \* authenticateItem promises pending together
MaxAwaiting == 2    \* getUserMedia, play and FileReader completions pending together

\* What the App's state does not touch.
serviceVars ==
    << pc, envApiKey, mergedConfig, chat, sent, toolCallCount, functionCalls, settled, resumed,
       toolResponses, toolsExecuted, authResult, correctedResult, returned, returnSite, thrown >>

appVars == << view, scanning, result, progress, error, showDemo, isDemoResult, inFlight >>

cameraVars == << cameraState, capturedImage, facingMode, errorMessage, streamRef, awaiting >>

DEMO_ITEMS == {"nike-windbreaker", "levis-big-e", "fake-polo-sport"}

\* item.expectedResult of a demo item, and the value authenticateItem resolves with.
DemoResult(item) == [from |-> "DEMO_ITEMS", item |-> item]

ScanResult == [from |-> "authenticateItem"]

ScanStatuses == {"analyzing", "tool_calling", "self_correcting", "complete"}

MediaStream(readyState) == [readyState |-> readyState]

\* getTracks().forEach(track => track.stop())
StopTracks(stream) == IF stream = NONE THEN NONE ELSE MediaStream("ended")

Pending(kind) == awaiting[kind]

AllAwaiting == awaiting.getUserMedia + awaiting.play + awaiting.reader + awaiting.unmountedStart + awaiting.unmountedReader

Begin(kind) == [awaiting EXCEPT ![kind] = @ + 1]

Finish(kind) == [awaiting EXCEPT ![kind] = @ - 1]

\* The continuations of an unmounted CameraCapture still run, against its own
\* refs and state.
Orphaned == [awaiting EXCEPT !.unmountedStart = @ + awaiting.getUserMedia + awaiting.play, !.getUserMedia = 0, !.play = 0, !.unmountedReader = @ + awaiting.reader, !.reader = 0]

\* The cleanup effect, and the state the next mount starts from.
CameraCaptureUnmounts ==
    /\ cameraState' = "idle"
    /\ capturedImage' = NONE
    /\ facingMode' = "environment"
    /\ errorMessage' = ""
    /\ streamRef' = NONE
    /\ awaiting' = Orphaned

\* CameraCapture is rendered in the scanner view only.
setView(next) ==
    /\ view' = next
    /\ IF view = "scanner" /\ next # "scanner" THEN CameraCaptureUnmounts ELSE UNCHANGED cameraVars

AppInit ==
    /\ pc = "app"
    /\ view = "home"
    /\ scanning = FALSE
    /\ result = NONE
    /\ progress = NONE
    /\ error = NONE
    /\ showDemo = FALSE
    /\ isDemoResult = FALSE
    /\ inFlight = 0
    /\ NotRendered
    /\ envApiKey = ""
    /\ mergedConfig = NONE
    /\ chat = NONE
    /\ sent = <<>>
    /\ toolCallCount = 0
    /\ functionCalls = <<>>
    /\ settled = <<>>
    /\ resumed = 0
    /\ toolResponses = <<>>
    /\ toolsExecuted = 0
    /\ authResult = NONE
    /\ correctedResult = NONE
    /\ returned = NONE
    /\ returnSite = "none"
    /\ thrown = NONE

\* handleCapture up to its await, with authenticateItem's first onProgress.
handleCapture ==
    /\ inFlight < MaxInFlight
    /\ scanning' = TRUE
    /\ error' = NONE
    /\ result' = NONE
    /\ isDemoResult' = FALSE
    /\ progress' = Some("analyzing")
    /\ inFlight' = inFlight + 1
    /\ UNCHANGED << view, showDemo >>

\* setProgress, passed to authenticateItem as onProgress
ScanProgress(status) ==
    /\ pc = "app"
    /\ inFlight > 0
    /\ progress' = Some(status)
    /\ UNCHANGED << view, scanning, result, error, showDemo, isDemoResult, inFlight >>
    /\ UNCHANGED cameraVars
    /\ UNCHANGED serviceVars

\* handleCapture after its await: the try block and finally
ScanResolves ==
    /\ pc = "app"
    /\ inFlight > 0
    /\ result' = ScanResult
    /\ setView("results")
    /\ scanning' = FALSE
    /\ progress' = NONE
    /\ inFlight' = inFlight - 1
    /\ UNCHANGED << error, showDemo, isDemoResult >>
    /\ UNCHANGED serviceVars

\* handleCapture after its await: catch and finally
ScanRejects ==
    /\ pc = "app"
    /\ inFlight > 0
    /\ error' = Some("Authentication failed")
    /\ scanning' = FALSE
    /\ progress' = NONE
    /\ inFlight' = inFlight - 1
    /\ UNCHANGED << view, result, showDemo, isDemoResult >>
    /\ UNCHANGED cameraVars
    /\ UNCHANGED serviceVars

\* The DemoMode overlay covers the page while it is shown.
PageShown == pc = "app" /\ ~showDemo

handleStartScan ==
    /\ PageShown
    /\ view = "home" \/ (view = "results" /\ result # NONE)
    /\ setView("scanner")
    /\ result' = NONE
    /\ error' = NONE
    /\ isDemoResult' = FALSE
    /\ UNCHANGED << scanning, progress, showDemo, inFlight >>
    /\ UNCHANGED serviceVars

handleBackHome ==
    /\ PageShown
    /\ setView("home")
    /\ result' = NONE
    /\ scanning' = FALSE
    /\ progress' = NONE
    /\ error' = NONE
    /\ isDemoResult' = FALSE
    /\ UNCHANGED << showDemo, inFlight >>
    /\ UNCHANGED serviceVars

\* onClick={() => setShowDemo(true)}
OpenDemo ==
    /\ PageShown
    /\ view = "home"
    /\ showDemo' = TRUE
    /\ UNCHANGED << view, scanning, result, progress, error, isDemoResult, inFlight >>
    /\ UNCHANGED cameraVars
    /\ UNCHANGED serviceVars

\* onClose={() => setShowDemo(false)}
CloseDemo ==
    /\ pc = "app"
    /\ showDemo
    /\ showDemo' = FALSE
    /\ UNCHANGED << view, scanning, result, progress, error, isDemoResult, inFlight >>
    /\ UNCHANGED cameraVars
    /\ UNCHANGED serviceVars

handleDemoSelect(item) ==
    /\ pc = "app"
    /\ showDemo
    /\ result' = DemoResult(item)
    /\ isDemoResult' = TRUE
    /\ showDemo' = FALSE
    /\ setView("results")
    /\ UNCHANGED << scanning, progress, error, inFlight >>
    /\ UNCHANGED serviceVars

\* onClick={() => setError(null)}
DismissError ==
    /\ PageShown
    /\ view = "scanner"
    /\ error # NONE
    /\ error' = NONE
    /\ UNCHANGED << view, scanning, result, progress, showDemo, isDemoResult, inFlight >>
    /\ UNCHANGED cameraVars
    /\ UNCHANGED serviceVars

\* ---- CameraCapture

CameraShown == PageShown /\ view = "scanner"

OtherFacing(mode) == IF mode = "user" THEN "environment" ELSE "user"

\* startCamera up to await getUserMedia
startCamera(facing) ==
    /\ AllAwaiting < MaxAwaiting
    /\ cameraState' = "requesting"
    /\ errorMessage' = ""
    /\ streamRef' = StopTracks(streamRef)
    /\ facingMode' = facing
    /\ awaiting' = Begin("getUserMedia")
    /\ UNCHANGED capturedImage
    /\ UNCHANGED appVars
    /\ UNCHANGED serviceVars

\* Open Camera, Retry Camera
OpenCamera ==
    /\ CameraShown
    /\ cameraState \in {"idle", "error"}
    /\ startCamera(facingMode)

\* setFacingMode, then the effect on facingMode
switchCamera ==
    /\ CameraShown
    /\ cameraState = "active"
    /\ startCamera(OtherFacing(facingMode))

\* startCamera from getUserMedia's stream to await play()
GetUserMediaResolves ==
    /\ pc = "app"
    /\ Pending("getUserMedia") > 0
    /\ streamRef' = MediaStream("live")
    /\ awaiting' = [Finish("getUserMedia") EXCEPT !.play = @ + 1]
    /\ UNCHANGED << cameraState, capturedImage, facingMode, errorMessage >>
    /\ UNCHANGED appVars
    /\ UNCHANGED serviceVars

PlayResolves ==
    /\ pc = "app"
    /\ Pending("play") > 0
    /\ cameraState' = "active"
    /\ awaiting' = Finish("play")
    /\ UNCHANGED << capturedImage, facingMode, errorMessage, streamRef >>
    /\ UNCHANGED appVars
    /\ UNCHANGED serviceVars

\* startCamera's catch; onError is (err) => setError(err)
StartCameraFails(during) ==
    /\ pc = "app"
    /\ Pending(during) > 0
    /\ errorMessage' = "getCameraErrorMessage"
    /\ cameraState' = "error"
    /\ error' = Some("Camera access denied")
    /\ awaiting' = Finish(during)
    /\ UNCHANGED << capturedImage, facingMode, streamRef >>
    /\ UNCHANGED << view, scanning, result, progress, showDemo, isDemoResult, inFlight >>
    /\ UNCHANGED serviceVars

stopCamera ==
    /\ CameraShown
    /\ cameraState = "active"
    /\ streamRef' = NONE
    /\ cameraState' = "idle"
    /\ UNCHANGED << capturedImage, facingMode, errorMessage, awaiting >>
    /\ UNCHANGED appVars
    /\ UNCHANGED serviceVars

captureFrame ==
    /\ CameraShown
    /\ cameraState = "active"
    /\ capturedImage' = Some("imageData")
    /\ cameraState' = "captured"
    /\ handleCapture
    /\ UNCHANGED << facingMode, errorMessage, streamRef, awaiting >>
    /\ UNCHANGED serviceVars

retake ==
    /\ CameraShown
    /\ cameraState = "captured"
    /\ ~scanning
    /\ capturedImage' = NONE
    /\ cameraState' = "active"
    /\ UNCHANGED << facingMode, errorMessage, streamRef, awaiting >>
    /\ UNCHANGED appVars
    /\ UNCHANGED serviceVars

Files == {"none", "text/plain", "image over 20MB", "image"}

handleFileUpload(file) ==
    /\ CameraShown
    /\ cameraState \in {"idle", "error"}
    /\ CASE file = "none" -> UNCHANGED << errorMessage, awaiting >>
         [] file = "text/plain" -> errorMessage' = "Please select an image file" /\ UNCHANGED awaiting
         [] file = "image over 20MB" -> errorMessage' = "Image must be under 20MB" /\ UNCHANGED awaiting
         [] file = "image" -> AllAwaiting < MaxAwaiting /\ awaiting' = Begin("reader") /\ UNCHANGED errorMessage
    /\ UNCHANGED << cameraState, capturedImage, facingMode, streamRef >>
    /\ UNCHANGED appVars
    /\ UNCHANGED serviceVars

\* reader.onload
ReaderLoads ==
    /\ pc = "app"
    /\ Pending("reader") > 0
    /\ capturedImage' = Some("imageData")
    /\ cameraState' = "captured"
    /\ handleCapture
    /\ awaiting' = Finish("reader")
    /\ UNCHANGED << facingMode, errorMessage, streamRef >>
    /\ UNCHANGED serviceVars

\* reader.onerror
ReaderFails ==
    /\ pc = "app"
    /\ Pending("reader") > 0
    /\ errorMessage' = "Failed to read file"
    /\ awaiting' = Finish("reader")
    /\ UNCHANGED << cameraState, capturedImage, facingMode, streamRef >>
    /\ UNCHANGED appVars
    /\ UNCHANGED serviceVars

\* reader.onload of an unmounted CameraCapture: its onCapture is still handleCapture
UnmountedReaderLoads ==
    /\ pc = "app"
    /\ Pending("unmountedReader") > 0
    /\ handleCapture
    /\ awaiting' = Finish("unmountedReader")
    /\ UNCHANGED << cameraState, capturedImage, facingMode, errorMessage, streamRef >>
    /\ UNCHANGED serviceVars

\* startCamera's catch in an unmounted CameraCapture: its onError still sets error
UnmountedStartFails ==
    /\ pc = "app"
    /\ Pending("unmountedStart") > 0
    /\ error' = Some("Camera access denied")
    /\ awaiting' = Finish("unmountedStart")
    /\ UNCHANGED << cameraState, capturedImage, facingMode, errorMessage, streamRef >>
    /\ UNCHANGED << view, scanning, result, progress, showDemo, isDemoResult, inFlight >>
    /\ UNCHANGED serviceVars

\* In an unmounted CameraCapture: videoRef.current is null after getUserMedia,
\* play() resolves, or reader.onerror sets the unmounted state.
UnmountedEnds(kind) ==
    /\ pc = "app"
    /\ Pending(kind) > 0
    /\ awaiting' = Finish(kind)
    /\ UNCHANGED << cameraState, capturedImage, facingMode, errorMessage, streamRef >>
    /\ UNCHANGED appVars
    /\ UNCHANGED serviceVars

AppNext ==
    \/ handleStartScan
    \/ handleBackHome
    \/ OpenDemo
    \/ CloseDemo
    \/ \E item \in DEMO_ITEMS : handleDemoSelect(item)
    \/ DismissError
    \/ \E status \in ScanStatuses : ScanProgress(status)
    \/ ScanResolves
    \/ ScanRejects
    \/ OpenCamera
    \/ switchCamera
    \/ GetUserMediaResolves
    \/ PlayResolves
    \/ \E during \in {"getUserMedia", "play"} : StartCameraFails(during)
    \/ stopCamera
    \/ captureFrame
    \/ retake
    \/ \E file \in Files : handleFileUpload(file)
    \/ ReaderLoads
    \/ ReaderFails
    \/ UnmountedReaderLoads
    \/ UnmountedStartFails
    \/ \E kind \in {"unmountedStart", "unmountedReader"} : UnmountedEnds(kind)

SpecApp == AppInit /\ [][AppNext]_vars

\* ------------------------------------------------------------------------
\* Properties of authenticateItem
\* ------------------------------------------------------------------------

NumMessages(kind) == Cardinality({i \in 1..Len(sent) : sent[i].kind = kind})

NumEvents(status) == Cardinality({i \in 1..Len(progress) : progress[i].status = status})

CorrectionSent == NumMessages("correction") >= 1

\* C1: whatever the model answers, at most 8 tool-call rounds run.  The
\* round counter and the number of tool-response messages never exceed 8;
\* once the 8th round's responses are sent no tool is running, and when the
\* reply to them arrives the run is in synthesis (the final text is parsed
\* and the synthesis event reported) even if that reply requests calls.
C1_RoundCeiling ==
    /\ toolCallCount <= 8
    /\ NumMessages("tool_responses") <= 8
    /\ toolsExecuted <= 8 * MaxCallsPerRound
    /\ NumMessages("tool_responses") = 8 =>
          /\ pc # "tools"
          /\ pc \notin {"await_tools", "failed"} =>
                /\ authResult # NONE
                /\ \E i \in 1..Len(progress) : progress[i] = Event("analyzing", 4, "")

C1_Witness ==
    /\ pc = "done"
    /\ toolCallCount = 8
    /\ NumMessages("tool_responses") = 8
    /\ result.functionCalls # <<>>
    /\ returned # NONE

\* C2: a returned result's confidence is at least the confidence parsed
\* from the final text of the tool loop (the initial candidate).
C2_NeverRegresses ==
    returned # NONE => returned.confidence >= parseConfidence(result.text)

C2_Witness ==
    /\ pc = "done"
    /\ correctedResult # NONE
    /\ correctedResult.confidence < authResult.confidence
    /\ returned # NONE

\* C3: with two candidates, the corrected one is returned exactly when its
\* confidence is strictly greater; otherwise, a tie included, the initial
\* candidate is returned as parsed.
C3_StrictlyGreaterWins ==
    (pc = "done" /\ correctedResult # NONE) =>
        LET initial == ParsedTexts[result.text] IN
        IF correctedResult.confidence > initial.confidence
        THEN returnSite = "correctedResult" /\ returned = correctedResult
        ELSE returnSite = "authResult" /\ returned = initial

C3_Witness ==
    /\ pc = "done"
    /\ correctedResult # NONE
    /\ correctedResult.confidence = authResult.confidence
    /\ correctedResult.reasoning # authResult.reasoning
    /\ returned = authResult

\* C4: the corrective turn is sent exactly when the initial confidence is
\* strictly below selfCorrectionThreshold * 100 (the product as the double
\* the program computes); with the default 0.7 that is exactly when the
\* confidence is at most 69, so 69 triggers it and 70 does not.
C4_ThresholdGate ==
    IF authResult = NONE THEN ~CorrectionSent
    ELSE LET c == parseConfidence(result.text)
             h == mergedConfig.selfCorrectionThreshold
         IN /\ CorrectionSent <=> LessThanDouble(c, ThresholdTimes100(h))
            /\ h = 70 => (CorrectionSent <=> c <= 69)
            /\ (h = 70 /\ c = 69) => CorrectionSent
            /\ (h = 70 /\ c = 70) => ~CorrectionSent

C4_Witness ==
    /\ authResult # NONE
    /\ mergedConfig.selfCorrectionThreshold = 70
    /\ authResult.confidence = 69
    /\ CorrectionSent

\* C5: at most one corrective turn is sent (and announced) in a run, also
\* when the corrected candidate is still below the threshold or below the
\* initial one.
C5_SingleCorrection ==
    /\ NumMessages("correction") <= 1
    /\ NumEvents("self_correcting") <= 1

C5_Witness ==
    /\ pc = "done"
    /\ correctedResult # NONE
    /\ needsSelfCorrection(correctedResult.confidence, mergedConfig)
    /\ correctedResult.confidence < authResult.confidence
    /\ NumMessages("correction") = 1

\* C6: a failure of the corrective turn is treated as no improvement: once
\* the corrective turn has been sent, the run ends by returning the initial
\* result, never by throwing.
C6_CorrectionFailureKeepsInitial ==
    (CorrectionSent /\ pc \in {"done", "failed"}) =>
        /\ pc = "done"
        /\ thrown = NONE
        /\ returned # NONE

\* C7: with an empty apiKey in the merged configuration the run fails with
\* the configuration error, no session exists, nothing was sent to the
\* model, no tool ran and nothing is returned.
C7_EmptyKeyFailsFirst ==
    (mergedConfig # NONE /\ mergedConfig.apiKey = "") =>
        /\ pc = "failed"
        /\ thrown = Error("VITE_GEMINI_API_KEY is required", "createClient")
        /\ chat = NONE
        /\ sent = <<>>
        /\ toolsExecuted = 0
        /\ returned = NONE

C7_Witness ==
    /\ envApiKey # ""
    /\ mergedConfig # NONE
    /\ mergedConfig.apiKey = ""
    /\ pc = "failed"

\* The number of function responses carried by the messages sent so far.
RECURSIVE NumResponsesSent(_)
NumResponsesSent(msgs) ==
    IF msgs = <<>> THEN 0
    ELSE (IF msgs[1].kind = "tool_responses" THEN Len(msgs[1].parts) ELSE 0)
         + NumResponsesSent(Tail(msgs))

\* C8: when the initial call or a tool-response call has failed, the run
\* has thrown and stopped: nothing is returned or synthesized, every
\* message was sent once (the prompt, then one message per round: the
\* failed one is the last and was not sent again), every tool that ran
\* belongs to a round sent before the failure, and no step follows.
C8_CallFailureIsFatal ==
    (thrown # NONE /\ thrown.name = "ApiError"
       /\ thrown.during \in {"await_initial", "await_tools"}) =>
        /\ pc = "failed"
        /\ returned = NONE
        /\ authResult = NONE
        /\ Len(sent) = 1 + toolCallCount
        /\ NumMessages("initial") = 1
        /\ NumMessages("tool_responses") = toolCallCount
        /\ toolsExecuted = NumResponsesSent(sent)
        /\ thrown.during = "await_initial" => toolCallCount = 0 /\ toolsExecuted = 0
        /\ ~ENABLED Next

C8_Witness ==
    /\ thrown # NONE
    /\ thrown.name = "ApiError"
    /\ thrown.during = "await_tools"
    /\ toolCallCount >= 2
    /\ pc = "failed"

\* The phase order of a sequence of progress events: one or more analyzing
\* events, any number of tool_calling events, the synthesis analyzing
\* event, at most one self_correcting event, and complete.
PhaseOrder(p) ==
    LET n == Len(p)
        synth == IF n >= 2 /\ p[n - 1].status = "self_correcting" THEN n - 2 ELSE n - 1
    IN /\ n >= 3
       /\ synth >= 2
       /\ p[n].status = "complete"
       /\ p[synth].status = "analyzing"
       /\ \E k \in 1..(synth - 1) :
             /\ \A i \in 1..k : p[i].status = "analyzing"
             /\ \A i \in (k + 1)..(synth - 1) : p[i].status = "tool_calling"
       /\ \A i \in (synth + 1)..n : p[i].status # "tool_calling"
       /\ \A i \in 1..n : p[i].status = "self_correcting" => i = synth + 1

\* C9: in a successful run the statuses passed to onProgress follow the
\* phase order analyzing, tool_calling*, analyzing, [self_correcting],
\* complete: no tool_calling after the synthesis event, self_correcting at
\* most once and right after it.
C9_ProgressPhaseOrder ==
    pc = "done" =>
        /\ PhaseOrder(progress)
        /\ NumEvents("self_correcting") <= 1

C9_Witness ==
    /\ pc = "done"
    /\ NumEvents("tool_calling") >= 3
    /\ NumEvents("self_correcting") = 1

\* C10: complete is reported exactly once in a run that returns, as its
\* last event, and never in a run that throws; a run returns or throws,
\* not both.
C10_CompleteOnceAndLast ==
    /\ NumEvents("complete") <= 1
    /\ \A i \in 1..Len(progress) : progress[i].status = "complete" => i = Len(progress)
    /\ returned # NONE <=> pc = "done"
    /\ thrown # NONE <=> pc = "failed"
    /\ pc = "done" =>
          /\ NumEvents("complete") = 1
          /\ progress[Len(progress)].status = "complete"
    /\ pc = "failed" => NumEvents("complete") = 0

C10_Witness ==
    /\ pc = "done"
    /\ returnSite = "correctedResult"
    /\ NumEvents("complete") = 1

\* ------------------------------------------------------------------------
\* Properties of the tools
\* ------------------------------------------------------------------------

\* The call under test and its executions so far.
UnitCall == functionCalls[1]
Executed(toolName) == {i \in 1..Len(settled) : pc = "unit" /\ UnitCall.name = toolName}

\* C11: for every tool name that is not one of rn_lookup, brand_patterns,
\* date_forensics and market_search, executeToolCall fails with an
\* 'Unknown tool' error and produces no result.
C11_UnknownNameFails ==
    pc = "unit" =>
        \A i \in 1..Len(settled) :
            UnitCall.name \notin {"rn_lookup", "brand_patterns", "date_forensics", "market_search"}
            => /\ ~settled[i].ok
               /\ settled[i].error = "Unknown tool"
               /\ settled[i].value = NONE

\* C16: each of the four tools is a pure function of its arguments: two
\* executions of executeToolCall with the same name and the same argument
\* map return equal results.
C16_ToolsArePure ==
    (pc = "unit" /\ Len(settled) = 2 /\ UnitCall.name \in TOOL_MAP)
    => settled[1] = settled[2]

\* The digits of the rn_number argument and the integer they parse to.
RnDigits(args) == SelectSeq(Arg(args, "rn_number", <<>>), IsDigit)
RnValue(args) == parseInt([i \in 1..Len(RnDigits(args)) |-> DigitValue(RnDigits(args)[i])])

\* y is the integer nearest to (n - 13670) / 2635 + 1959, halves up.
IsRoundedFormulaYear(y, n) ==
    /\ 2 * 2635 * (y - 1959) - 2635 <= 2 * (n - 13670)
    /\ 2 * (n - 13670) < 2 * 2635 * (y - 1959) + 2635

\* C17: for every rn_lookup input whose digits parse to an integer n,
\* calculatedYear is round((n - 13670) / 2635 + 1959) when n >= 13670 and
\* null when n < 13670 ("13670" gives 1959 and "16305" gives 1960); an
\* input with no digits gives a not_found result with null
\* registrationYear and calculatedYear, and no error.
C17_FormulaYear ==
    \A i \in Executed("rn_lookup") :
        LET args == UnitCall.args
            r    == settled[i].value
        IN /\ settled[i].ok
           /\ IF RnDigits(args) = <<>>
              THEN /\ r.status = "not_found"
                   /\ r.registrationYear = NONE
                   /\ r.calculatedYear = NONE
              ELSE /\ RnValue(args) < 13670 => r.calculatedYear = NONE
                   /\ RnValue(args) >= 13670 =>
                          /\ r.calculatedYear # NONE
                          /\ IsRoundedFormulaYear(r.calculatedYear.some, RnValue(args))
                   /\ RnValue(args) = 13670 => r.calculatedYear = Some(1959)
                   /\ RnValue(args) = 16305 => r.calculatedYear = Some(1960)

\* rn_lookup has run on "14988", whose quotient rounds up to 1960, and an
\* input without digits is among the calls.
C17_Witness ==
    \E i \in Executed("rn_lookup") :
        /\ RnDigits(UnitCall.args) = <<"1", "4", "9", "8", "8">>
        /\ settled[i].value.calculatedYear = Some(1960)
        /\ settled[i].value.status = "active"

\* The brand argument as brandPatterns looks it up.
NormalizedBrand(args) == trim(toLowerCase(Arg(args, "brand", <<>>)))

\* C18: for every brand argument that, after lower-casing and trimming, is
\* not a key of the brand table (nike, levis, ralph lauren), brand_patterns
\* returns authenticityScore exactly 50, exactly one red flag and an empty
\* matchedPatterns list, whatever era and markers are supplied.
C18_UnknownBrandIsNeutral ==
    \A i \in Executed("brand_patterns") :
        NormalizedBrand(UnitCall.args) \notin { <<"n", "i", "k", "e">>, <<"l", "e", "v", "i", "s">>, <<"r", "a", "l", "p", "h", " ", "l", "a", "u", "r", "e", "n">> }
        => /\ settled[i].ok
           /\ settled[i].value.authenticityScore = 50
           /\ Len(settled[i].value.redFlags) = 1
           /\ settled[i].value.matchedPatterns = <<>>

\* The table markers whose feature occurs in the lower-cased input.
OccurringMarkers(args) ==
    {k \in 1..Len(CONSTRUCTION_MARKERS) :
        includes(toLowerCase(Arg(args, "construction_details", <<>>)) \o <<" ">>
                 \o toLowerCase(Arg(args, "materials", <<>>)),
                 CONSTRUCTION_MARKERS[k].feature)}

\* The sum over the markers K of confidence times eraRange[side], and of
\* confidence alone for side 0.
RECURSIVE Weighted(_, _, _)
Weighted(K, side, k) ==
    IF k = 0 THEN 0
    ELSE Weighted(K, side, k - 1)
         + (IF k \notin K THEN 0
            ELSE IF side = 0 THEN CONSTRUCTION_MARKERS[k].confidence
            ELSE CONSTRUCTION_MARKERS[k].confidence * CONSTRUCTION_MARKERS[k].eraRange[side])

\* y is an integer nearest to the confidence-weighted average of the
\* markers' range ends on that side.
IsRoundedAverage(y, K, side) ==
    LET w == Weighted(K, 0, Len(CONSTRUCTION_MARKERS))
        t == Weighted(K, side, Len(CONSTRUCTION_MARKERS))
    IN 2 * w * y - w <= 2 * t /\ 2 * t <= 2 * w * y + w

MaxStart(K) == CHOOSE y \in {CONSTRUCTION_MARKERS[k].eraRange[1] : k \in K} : \A k \in K : CONSTRUCTION_MARKERS[k].eraRange[1] <= y

MinEnd(K) == CHOOSE y \in {CONSTRUCTION_MARKERS[k].eraRange[2] : k \in K} : \A k \in K : CONSTRUCTION_MARKERS[k].eraRange[2] >= y

\* C24: date_forensics range selection.  With no table marker in the
\* lower-cased input the result is yearRange [1960, 2020] at confidence
\* 0.3; with at least one, yearRange is the intersection [max of starts,
\* min of ends] of the matched markers' ranges when max start <= min end,
\* and otherwise the rounded confidence-weighted averages of the matched
\* starts and ends.
C24_RangeSelection ==
    \A i \in Executed("date_forensics") :
        LET K == OccurringMarkers(UnitCall.args)
            r == settled[i].value
        IN /\ settled[i].ok
           /\ IF K = {}
              THEN r.yearRange = <<1960, 2020>> /\ r.confidence = [num |-> 30, den |-> 100]
              ELSE IF MaxStart(K) <= MinEnd(K)
              THEN r.yearRange = <<MaxStart(K), MinEnd(K)>>
              ELSE /\ IsRoundedAverage(r.yearRange[1], K, 1)
                   /\ IsRoundedAverage(r.yearRange[2], K, 2)

\* date_forensics has run on an input whose three markers (made in china,
\* care label, no care label) have no common year.
C24_Witness ==
    \E i \in Executed("date_forensics") :
        /\ Cardinality(OccurringMarkers(UnitCall.args)) = 3
        /\ MaxStart(OccurringMarkers(UnitCall.args)) = 1985
        /\ MinEnd(OccurringMarkers(UnitCall.args)) = 1971
        /\ settled[i].value.yearRange = <<1953, 2004>>

\* C29: when construction_details is exactly the feature text of one table
\* marker and materials is empty, date_forensics returns exactly that
\* marker's year range ("selvedge" gives 1920-1985 and "no care label"
\* gives 1920-1971), for each of the 18 table markers.
C29_SingleMarkerRange ==
    \A i \in Executed("date_forensics") :
        \A k \in 1..Len(CONSTRUCTION_MARKERS) :
            (/\ Arg(UnitCall.args, "construction_details", <<>>) = CONSTRUCTION_MARKERS[k].feature
             /\ Arg(UnitCall.args, "materials", <<>>) = <<>>)
            => /\ settled[i].ok
               /\ settled[i].value.yearRange = CONSTRUCTION_MARKERS[k].eraRange

\* The brand's table entry, for a brand argument that names a table brand.
KnownBrand(args) == \E b \in BRAND_PATTERNS : b.brand = NormalizedBrand(args)

BrandEras(args) == (CHOOSE b \in BRAND_PATTERNS : b.brand = NormalizedBrand(args)).eras

\* The era keys whose decade digits occur in the era argument.
EraHits(args) == {j \in 1..Len(BrandEras(args)) : includes(Arg(args, "era", <<>>), SubSeq(BrandEras(args)[j].key, 1, 4))}

\* The first of them, or the brand's last era when there is none.
SelectedEra(args) ==
    IF EraHits(args) # {}
    THEN BrandEras(args)[CHOOSE j \in EraHits(args) : \A h \in EraHits(args) : j <= h]
    ELSE BrandEras(args)[Len(BrandEras(args))]

\* The positions in a list of expected texts that an observed marker matches.
MatchedIn(args, expected) == {j \in 1..Len(expected) : observed(splitTrimFilter(Arg(args, "markers", <<>>)), expected[j])}

\* C25: for a known brand, authenticityScore is 100 x (expected patterns
\* matched by an observed marker / expected patterns of the selected era)
\* minus 15 x (expected red flags matched), clamped to [0, 100]; the
\* selected era is the first era key whose decade digits occur in the era
\* argument, or the brand's last era when none does.  The score is in
\* [0, 100] for every input.
C25_AuthenticityScore ==
    \A i \in Executed("brand_patterns") :
        /\ settled[i].ok => settled[i].value.authenticityScore \in 0..100
        /\ KnownBrand(UnitCall.args)
           => LET eraData == SelectedEra(UnitCall.args)
                  n       == Len(eraData.patterns)
                  scaled  == 100 * Cardinality(MatchedIn(UnitCall.args, eraData.patterns))
                             - 15 * n * Cardinality(MatchedIn(UnitCall.args, eraData.redFlags))
                  r       == settled[i].value
              IN /\ settled[i].ok
                 /\ r.era = eraData.key
                 /\ scaled <= 0 => r.authenticityScore = 0
                 /\ scaled >= 100 * n => r.authenticityScore = 100
                 /\ (0 < scaled /\ scaled < 100 * n) => r.authenticityScore * n = scaled

\* brand_patterns has run for a known brand with an era naming 1970, one
\* expected pattern and one expected red flag matched: score 25 - 15.
C25_Witness ==
    \E i \in Executed("brand_patterns") :
        /\ KnownBrand(UnitCall.args)
        /\ EraHits(UnitCall.args) # {}
        /\ settled[i].value.era = <<"1", "9", "7", "0", "s">>
        /\ Cardinality(MatchedIn(UnitCall.args, SelectedEra(UnitCall.args).patterns)) = 1
        /\ Cardinality(MatchedIn(UnitCall.args, SelectedEra(UnitCall.args).redFlags)) = 1
        /\ settled[i].value.authenticityScore = 10

\* C30: for a known brand, matchedPatterns holds exactly the expected
\* patterns of the selected era that some observed marker matched: it is
\* empty when no marker matches a pattern, and its length is the pattern
\* count that authenticityScore uses.
C30_MatchedPatternsExact ==
    \A i \in Executed("brand_patterns") :
        KnownBrand(UnitCall.args)
        => LET patterns == SelectedEra(UnitCall.args).patterns
               matched  == MatchedIn(UnitCall.args, patterns)
           IN /\ settled[i].ok
              /\ Len(settled[i].value.matchedPatterns) = Cardinality(matched)
              /\ \A j \in 1..Len(patterns) :
                     (j \in matched) <=> (\E k \in 1..Len(settled[i].value.matchedPatterns) : settled[i].value.matchedPatterns[k] = patterns[j])

\* The band and the multiplier (in tenths) the claim names.
ClaimedBand(args) ==
    LET brand == toLowerCase(Arg(args, "brand", <<>>))
    IN IF \E b \in baseValues : b.brand = brand
       THEN CHOOSE b \in baseValues : b.brand = brand
       ELSE [brand |-> <<"d", "e", "f", "a", "u", "l", "t">>, low |-> 30, high |-> 200]

ClaimedMultiplier(args) ==
    LET era == Arg(args, "era", <<>>)
    IN IF includes(era, <<"1", "9", "7", "0">>) \/ includes(era, <<"1", "9", "8", "0">>) THEN 18
       ELSE IF includes(era, <<"1", "9", "9", "0">>) THEN 14
       ELSE IF includes(era, <<"2", "0", "0", "0">>) THEN 8
       ELSE 10

\* C19: market_search returns low = round(baseLow * m), high =
\* round(baseHigh * m) and mid = round((low + high) / 2), where the base
\* band is the brand's table entry (30-200 for an unknown brand) and m is
\* 1.8, 1.4, 0.8 or 1.0 by the era; levis with an era containing 1980
\* gives low 108, high 1440, mid 774.
C19_MarketBand ==
    \A i \in Executed("market_search") :
        LET args == UnitCall.args
            v    == settled[i].value.estimatedValue
            low  == MathRound(ClaimedBand(args).low * ClaimedMultiplier(args), 10)
            high == MathRound(ClaimedBand(args).high * ClaimedMultiplier(args), 10)
        IN /\ settled[i].ok
           /\ v.low = Some(low)
           /\ v.high = Some(high)
           /\ v.mid = Some(MathRound(low + high, 2))
           /\ (ClaimedBand(args).brand = <<"l", "e", "v", "i", "s">> /\ includes(Arg(args, "era", <<>>), <<"1", "9", "8", "0">>))
              => (v.low = Some(108) /\ v.high = Some(1440) /\ v.mid = Some(774))

\* ------------------------------------------------------------------------
\* Properties of the tool rounds
\* ------------------------------------------------------------------------

\* C12: if any call in a tool round names an unknown tool, the whole scan
\* fails: while such a round is the current one the run is either still
\* settling it or has failed with 'Unknown tool', the round's responses
\* are not among the messages sent, and nothing is returned.
C12_UnknownToolFailsScan ==
    (pc # "unit" /\ \E i \in 1..Len(functionCalls) : functionCalls[i].name \notin TOOL_MAP)
    => /\ pc \in {"tools", "failed"}
       /\ pc = "failed" => thrown = Error("Unknown tool", "tools")
       /\ NumMessages("tool_responses") = toolCallCount - 1
       /\ returned = NONE

\* C13: every tool result produced during a run is retained and included
\* in the AuthenticationResult that authenticateItem returns: after an
\* rn_lookup call was executed, the returned result's rnLookup is that
\* lookup's result rather than null.
C13_ToolResultsRetained ==
    (pc = "done" /\ NumMessages("tool_responses") >= 1)
    => \A i \in 1..Len(sent) :
          sent[i].kind = "tool_responses"
          => \A j \in 1..Len(sent[i].parts) :
                sent[i].parts[j].name = "rn_lookup"
                => returned.rnLookup = sent[i].parts[j].response

\* A round is open while its callbacks run, and stays so in a run that
\* failed in it.
RoundOpen == pc = "tools" \/ (pc = "failed" /\ thrown.during = "tools")

ToolResponseMessages == {i \in 1..Len(sent) : sent[i].kind = "tool_responses"}

\* The step that sends a round's follow-up message.
SendsToolResponses == sent' # sent /\ sent'[Len(sent')].kind = "tool_responses"

\* C22: the tool-round protocol.  All calls of a round are dispatched
\* together; one follow-up message per round is sent, once every call of
\* the round has completed; it carries one function response per requested
\* call, in request order and under that call's name; and no tool runs
\* between the sending of that message and the model's reply to it.
C22_ToolRoundProtocol ==
    /\ [](pc \notin {"unit", "app"}
          => /\ pc = "tools" => Len(settled) = Len(functionCalls)
             /\ Cardinality(ToolResponseMessages) = toolCallCount - (IF RoundOpen THEN 1 ELSE 0))
    /\ [][/\ SendsToolResponses
             => /\ resumed = Len(functionCalls)
                /\ Len(sent') = Len(sent) + 1
                /\ LET parts == sent'[Len(sent')].parts
                   IN /\ Len(parts) = Len(functionCalls)
                      /\ \A j \in 1..Len(parts) :
                            /\ parts[j].name = functionCalls[j].name
                            /\ parts[j].response = settled[j].value
          /\ (settled' # settled \/ toolsExecuted' # toolsExecuted)
             => /\ pc \in {"await_initial", "await_tools"}
                /\ toolCallCount' = toolCallCount + 1]_vars

\* A second round is under way after a first round of two calls was
\* answered.
C22_Witness ==
    /\ pc = "tools"
    /\ toolCallCount = 2
    /\ \E i \in ToolResponseMessages : Len(sent[i].parts) >= 2

ToolCallingEvents == Cardinality({i \in 1..Len(progress) : progress[i].status = "tool_calling"})

\* k + 1 for each round of k calls whose follow-up message was sent
RECURSIVE AnsweredRoundEvents(_)
AnsweredRoundEvents(n) ==
    IF n = 0 THEN 0
    ELSE AnsweredRoundEvents(n - 1)
         + (IF sent[n].kind = "tool_responses" THEN Len(sent[n].parts) + 1 ELSE 0)

\* C23: a round of k calls that all succeed emits exactly k + 1
\* tool_calling events, one when the round is dispatched and one after each
\* completed call, all before the round's follow-up message is sent: the
\* tool_calling events so far are k + 1 for every answered round, plus, in
\* an open round, one and one more for each call that has completed.
C23_ToolCallingEvents ==
    pc \notin {"unit", "app"}
    => ToolCallingEvents = AnsweredRoundEvents(Len(sent))
                           + (IF RoundOpen THEN 1 + Len(toolResponses) ELSE 0)

\* The follow-up message of a round of two calls has been sent, after three
\* tool_calling events.
C23_Witness ==
    /\ pc = "await_tools"
    /\ toolCallCount = 1
    /\ Len(sent[Len(sent)].parts) = 2
    /\ ToolCallingEvents = 3

\* ------------------------------------------------------------------------
\* Properties of the parser
\* ------------------------------------------------------------------------

\* The results the parser has built in the current state.
Parsed == {authResult, correctedResult, returned} \ {NONE}

\* C14: for every model text, the confidence of the result produced by
\* parseAuthenticationResponse is an integer in [0, 100], even when the
\* text states a larger number such as 150%.
C14_ConfidenceClamped ==
    \A r \in Parsed : r.confidence \in 0..100

\* The text "Confidence: 150%" has been parsed, to the confidence 100.
C14_Witness ==
    /\ pc = "unit"
    /\ authResult # NONE
    /\ result.text = ConfidenceText(150)
    /\ authResult.confidence = 100

\* C15: confidenceLevel is exactly the bucket of confidence: very_high
\* if confidence >= 90, high if >= 75, moderate if >= 55, low if >= 35,
\* otherwise uncertain (89 is high, 90 very_high, 54 low, 55 moderate,
\* 34 uncertain, 35 low).
C15_LevelIsBucket ==
    \A r \in Parsed :
        /\ r.confidenceLevel = "very_high" <=> r.confidence >= 90
        /\ r.confidenceLevel = "high"      <=> (75 <= r.confidence /\ r.confidence < 90)
        /\ r.confidenceLevel = "moderate"  <=> (55 <= r.confidence /\ r.confidence < 75)
        /\ r.confidenceLevel = "low"       <=> (35 <= r.confidence /\ r.confidence < 55)
        /\ r.confidenceLevel = "uncertain" <=> r.confidence < 35
        /\ r.confidence = 89 => r.confidenceLevel = "high"
        /\ r.confidence = 90 => r.confidenceLevel = "very_high"
        /\ r.confidence = 54 => r.confidenceLevel = "low"
        /\ r.confidence = 55 => r.confidenceLevel = "moderate"
        /\ r.confidence = 34 => r.confidenceLevel = "uncertain"
        /\ r.confidence = 35 => r.confidenceLevel = "low"

\* A text stating 90% has been parsed, to the level very_high.
C15_Witness ==
    /\ pc = "unit"
    /\ authResult # NONE
    /\ result.text = ConfidenceText(90)
    /\ authResult.confidence = 90
    /\ authResult.confidenceLevel = "very_high"

\* The fields of an AuthenticationResult the model keeps.
ResultFields ==
    { "isAuthentic", "confidence", "confidenceLevel", "category", "brandEra", "rnLookup", "brandPattern",
      "dateForensics", "marketData", "reasoning", "redFlags", "verifiedMarkers", "thinkingOutput" }

\* C20: parser misses are never fatal: for every final text, the empty
\* text included, parseAuthenticationResponse returns a result with every
\* field populated, using the defaults confidence 50, brand "Unknown", era
\* "Unknown era", yearRange [1970, 2000], empty redFlags and
\* verifiedMarkers, and market value low 0, high 0, mid 0 for each field
\* whose pattern does not match.
C20_MissesFallBackToDefaults ==
    authResult # NONE =>
        LET text == result.text
            r    == authResult
        IN /\ DOMAIN r = ResultFields
           /\ (\A p \in 1..3 : FirstMatch(p, text, 1) = <<>>) => r.confidence = 50
           /\ FirstMatch(4, text, 1) = <<>>
              => (r.brandEra.brand = <<W("Unknown")>> /\ r.brandPattern.brand = <<W("Unknown")>>)
           /\ (\A p \in 5..7 : FirstMatch(p, text, 1) = <<>>)
              => /\ r.brandEra.era = <<W("Unknown"), SP, W("era")>>
                 /\ r.brandPattern.era = <<W("Unknown"), SP, W("era")>>
                 /\ r.dateForensics.estimatedEra = <<W("Unknown"), SP, W("era")>>
           /\ FirstMatch(8, text, 1) = <<>>
              => (r.brandEra.yearRange = <<1970, 2000>> /\ r.dateForensics.yearRange = <<1970, 2000>>)
           /\ FirstMatch(9, text, 1) = <<>> => r.redFlags = <<>>
           /\ FirstMatch(10, text, 1) = <<>> => r.verifiedMarkers = <<>>
           /\ FirstMatch(11, text, 1) = <<>>
              => r.marketData.estimatedValue = [low |-> 0, mid |-> 0, high |-> 0, currency |-> "USD"]
           /\ text = EmptyText
              => /\ r.confidence = 50
                 /\ r.brandEra.brand = <<W("Unknown")>>
                 /\ r.brandEra.era = <<W("Unknown"), SP, W("era")>>
                 /\ r.brandEra.yearRange = <<1970, 2000>>
                 /\ r.redFlags = <<>>
                 /\ r.verifiedMarkers = <<>>
                 /\ r.marketData.estimatedValue.low = 0
                 /\ r.marketData.estimatedValue.mid = 0
                 /\ r.marketData.estimatedValue.high = 0

\* The empty text has been parsed, and so has a text in which only the
\* brand pattern matches.
C20_Witness ==
    /\ pc = "unit"
    /\ authResult # NONE
    /\ result.text = <<W("Brands"), SP, AMP, SP, W("Co"), COMMA, SP, W("x")>>
    /\ authResult.brandEra.brand = <<W("s"), SP, AMP, SP, W("Co")>>
    /\ authResult.brandEra.yearRange = <<1970, 2000>>
    /\ authResult.marketData.estimatedValue.mid = 0


\* ------------------------------------------------------------------------
\* Properties of the App
\* ------------------------------------------------------------------------

\* C21: at most one authenticateItem call is in flight at any time: whatever
\* the user does (capture or upload, Back, Start Scanning, Scan Again, Demo),
\* a second scan is not started while an earlier scan's promise is pending.
C21_OneScanInFlight == pc = "app" => inFlight <= 1

\* C27: isDemoResult is true only while the held result was set by selecting
\* a demo item: a result produced by authenticateItem is never held, and
\* never shown in the results view, while isDemoResult is true.
C27_DemoFlagOnlyOnDemoResult == (pc = "app" /\ isDemoResult) => result # ScanResult


\* C28: whenever cameraState is "active", streamRef holds a stream that has
\* not been stopped, after any sequence of startCamera, stopCamera,
\* captureFrame, retake, switchCamera and file upload; so captureFrame is
\* only possible against a live video feed.
C28_ActiveHasLiveStream == (pc = "app" /\ cameraState = "active") => streamRef = MediaStream("live")

\* The words of the texts that contain a negative term, that end in "not",
\* and that begin with "authentic" or "genuine".
ContainsNegativeWord(t) == IsWord(t, {"fake", "fakes", "counterfeit", "replica", "reproduction", "reproductions"})
EndsInNot(t) == IsWord(t, {"not", "cannot"})
BeginsAuthenticOrGenuine(t) == IsWord(t, {"authentic", "authenticate", "genuine"})

\* One of not authentic, not genuine, fake, counterfeit, replica and
\* reproduction occurs somewhere in the text.
NegativeTermAnywhere(text) ==
    \E i \in 1..Len(text) :
        \/ ContainsNegativeWord(text[i])
        \/ /\ EndsInNot(text[i])
           /\ i + 2 <= Len(text)
           /\ text[i + 1] = W(" ")
           /\ BeginsAuthenticOrGenuine(text[i + 2])

\* C26: the parsed isAuthentic is true if and only if the text contains at
\* least one of authentic, genuine, real, verified and legitimate as a whole
\* word and contains none of the negative terms anywhere: one negative term
\* anywhere forces isAuthentic to false.
C26_IsAuthentic ==
    (pc = "unit" /\ authResult # NONE)
    => (authResult.isAuthentic <=> (TestPositive(result.text) /\ ~NegativeTermAnywhere(result.text)))

====
